---- MODULE Spec2Model ----
(***************************************************************************)
(* State-machine models of the pattern demonstrations of the repository.   *)
(*                                                                         *)
(*   FlyweightSpec : src/Structural/Flyweight/main.cpp                     *)
(*                   (FlyweightFactory, Flyweight, AddCarToPoliceDatabase) *)
(*   ObserverSpec  : src/Behavioral/Observer/main.cpp                      *)
(*                   (Subject, and observers that call back from Update)   *)
(*   ClientSpec    : src/Behavioral/Observer/main.cpp                      *)
(*                   (Subject, Observer, ClientCode)                       *)
(*   SubjectsSpec  : src/Behavioral/Observer/main.cpp                      *)
(*                   (two Subject objects and their Observer objects)      *)
(*   SingletonSpec : src/Creational/Singleton/main.cpp                     *)
(*                   (Singleton::GetInstance called by several threads)    *)
(*   MementoSpec   : src/Behavioral/Memento/main.cpp                       *)
(*                   (Originator, Caretaker)                               *)
(*   StateSpec     : src/Behavioral/State/main.cpp                         *)
(*                   (Context, ConcreteStateA, ConcreteStateB)             *)
(*   CompositeSpec : src/Structural/Composite/main.cpp                     *)
(*                   (Leaf, Composite)                                     *)
(*   BuilderSpec   : src/Creational/Builder/main.cpp                       *)
(*                   (ConcreteBuilder1, Director, Product1)                *)
(*   MediatorSpec  : src/Behavioral/Mediator/main.cpp                      *)
(*                   (Component1, Component2, ConcreteMediator)            *)
(*                                                                         *)
(* SingletonFairSpec, MementoFairSpec and MediatorFairSpec add to the      *)
(* specification they are named after the condition that a call which has  *)
(* begun goes on.                                                          *)
(*                                                                         *)
(* Each specification moves the variables of its own component and leaves  *)
(* the other components' variables unchanged.                              *)
(***************************************************************************)
EXTENDS Integers, Sequences, FiniteSets, TLC

(***************************************************************************)
(* Bounds of the model.                                                    *)
(***************************************************************************)
\* longest initializer list handed to the FlyweightFactory constructor
MaxInit == 2
\* number of GetFlyweight calls made on one factory
MaxCalls == 3
\* number of Observer objects constructed
MaxObservers == 2
\* longest subscriber sequence
MaxList == 3
\* number of Attach/Detach calls made from Update callbacks during one pass
MaxPassOps == 1
\* number of threads that call Singleton::GetInstance
MaxThreads == 3
\* number of Caretaker::Backup calls made on one caretaker
MaxBackups == 3
\* number of Context objects constructed
MaxContexts == 2
\* number of Request1 and Request2 calls made on the Context objects
MaxRequests == 3
\* number of Leaf and Composite objects constructed
MaxComponents == 3
\* number of Add calls made on the components
MaxAdds == 3
\* number of parts produced by one builder
MaxProduced == 4
\* number of GetProduct calls made on one builder
MaxProducts == 2
\* number of component operations ClientCode calls
MaxTriggers == 3

(***************************************************************************)
(* Flyweight: values.                                                      *)
(***************************************************************************)
SS(b, m, c) == [brand_ |-> b, model_ |-> m, color_ |-> c]

\* The SharedState values the client passes.  The second and the third differ
\* from the first in the model and in the colour; the last two differ from
\* each other in brand and model.
SharedStates ==
    { SS("BMW", "M5", "red"),
      SS("BMW", "X1", "red"),
      SS("BMW", "M5", "white"),
      SS("Mercedes", "Benz_C300", "black"),
      SS("Mercedes_Benz", "C300", "black") }

US(o, p) == [owner_ |-> o, plates_ |-> p]

UniqueStates == { US("James Doe", "CL234IR") }

\* FlyweightFactory::GetKey
GetKey(ss) == ss.brand_ \o "_" \o ss.model_ \o "_" \o ss.color_

\* Flyweight::Flyweight(const SharedState*): the flyweight owns a copy of the
\* state it is given.
Flyweight(ss) == [shared_state_ |-> ss]

\* Flyweight::Flyweight(const Flyweight&): a deep copy, owning a new
\* SharedState object with the same fields.
FlyweightCopy(fw) == [shared_state_ |-> fw.shared_state_]

EmptyMap == [k \in {} |-> Flyweight(SS("", "", ""))]

\* std::unordered_map::insert: stores the pair unless the key is present.
MapInsert(m, key, fw) ==
    IF key \in DOMAIN m
    THEN m
    ELSE [k \in DOMAIN m \cup {key} |-> IF k = key THEN fw ELSE m[k]]

\* FlyweightFactory::FlyweightFactory(std::initializer_list<SharedState>)
RECURSIVE Construct(_, _)
Construct(m, shared_states) ==
    IF shared_states = <<>>
    THEN m
    ELSE Construct(MapInsert(m, GetKey(Head(shared_states)),
                             Flyweight(Head(shared_states))),
                   Tail(shared_states))

\* The set of keys of a sequence of SharedState values.
KeysOf(shared_states) ==
    { GetKey(shared_states[i]) : i \in DOMAIN shared_states }

\* StoreOnMiss as a cache that holds one entry: a miss drops what was stored.
StoreOnMissEvicting(m, shared_state) ==
    LET key == GetKey(shared_state)
    IN  IF key \notin DOMAIN m
        THEN [k \in {key} |-> Flyweight(shared_state)]
        ELSE m

\* StoreOnMiss without the find: the requested state is stored on every call
\* and replaces the entry of its key.
StoreAlways(m, shared_state) ==
    LET key == GetKey(shared_state)
    IN  [k \in DOMAIN m \cup {key} |->
            IF k = key THEN Flyweight(shared_state) ELSE m[k]]

\* The map GetFlyweight leaves behind: a flyweight is inserted only when
\* find(key) == end().
StoreOnMiss(m, shared_state) ==
    LET key == GetKey(shared_state)
    IN  IF key \notin DOMAIN m
        THEN MapInsert(m, key, Flyweight(shared_state))
        ELSE m

\* Report with the two branches exchanged.
ReportInverted(m, shared_state) ==
    IF GetKey(shared_state) \in DOMAIN m THEN "created" ELSE "reused"

\* The line GetFlyweight prints.
Report(m, shared_state) ==
    IF GetKey(shared_state) \notin DOMAIN m THEN "created" ELSE "reused"

\* Flyweight::Operation: the line it prints.
OperationOutput(fw, unique_state) ==
    <<"Flyweight: Displaying shared", fw.shared_state_, "and unique", unique_state>>

NoHandle == [shared_state_ |-> SS("", "", "")]
NoOutput == <<>>
NoListing == [count |-> 0 - 1, keys |-> {}]

(***************************************************************************)
(* Flyweight: state.                                                       *)
(***************************************************************************)
VARIABLES
    factory,        \* TRUE while the FlyweightFactory object exists
    flyweights_,    \* FlyweightFactory::flyweights_ : key -> Flyweight
    nShared,        \* number of live SharedState objects owned by Flyweights
    fpc,            \* position of the client: "idle", "held", "operated"
    handle,         \* the Flyweight GetFlyweight returned to the client
    displayed,      \* the last line Flyweight::Operation printed
    listed,         \* what the last ListFlyweights printed
    seeded,         \* history: the constructor's initializer list
    log             \* history: one record per GetFlyweight call

flyVars == <<factory, flyweights_, nShared, fpc, handle, displayed, listed,
             seeded, log>>

Count == Cardinality(DOMAIN flyweights_)

RECURSIVE SeqsUpTo(_, _)
SeqsUpTo(S, n) ==
    IF n = 0
    THEN { <<>> }
    ELSE LET shorter == SeqsUpTo(S, n - 1)
         IN  shorter \cup { Append(s, x) : s \in shorter, x \in S }

\* main(): new FlyweightFactory({...})
FlyInit ==
    /\ seeded \in SeqsUpTo(SharedStates, MaxInit)
    /\ factory = TRUE
    /\ flyweights_ = Construct(EmptyMap, seeded)
    /\ nShared = Cardinality(DOMAIN Construct(EmptyMap, seeded))
    /\ fpc = "idle"
    /\ handle = NoHandle
    /\ displayed = NoOutput
    /\ listed = NoListing
    /\ log = <<>>

(***************************************************************************)
(* Observer: values.                                                       *)
(***************************************************************************)
\* The addresses of the Observer objects; the k-th object constructed lives
\* at address k.
Observers == 1 .. MaxObservers

\* The messages the client hands to CreateMessage.
Messages == { "Hello", "Next" }

\* A remove that erases the last element when no element equals value.
ListRemoveOrBack(list, value) ==
    IF \A i \in DOMAIN list : list[i] # value
    THEN SubSeq(list, 1, Len(list) - 1)
    ELSE SelectSeq(list, LAMBDA o : o # value)

\* Erases the first element that compares equal to value, and no other.
RECURSIVE ListRemoveFirst(_, _)
ListRemoveFirst(list, value) ==
    IF list = <<>>
    THEN <<>>
    ELSE IF Head(list) = value
         THEN Tail(list)
         ELSE <<Head(list)>> \o ListRemoveFirst(Tail(list), value)

\* std::list::remove(value): walks the list and erases every element that
\* compares equal to value.
RECURSIVE ListRemove(_, _)
ListRemove(list, value) ==
    IF list = <<>>
    THEN <<>>
    ELSE IF Head(list) = value
         THEN ListRemove(Tail(list), value)
         ELSE <<Head(list)>> \o ListRemove(Tail(list), value)

\* A push_back that skips a value the list already holds.
PushBackUnique(list, value) ==
    IF \E i \in DOMAIN list : list[i] = value
    THEN list
    ELSE Append(list, value)

\* std::list::push_front
PushFront(list, value) == <<value>> \o list

\* std::list::push_back
PushBack(list, value) == Append(list, value)

\* The positions of list that hold value.
Positions(list, value) == { i \in DOMAIN list : list[i] = value }

\* An iterator whose node was erased.
Dangling == 0

\* Where an iterator at position i of list stands once remove(value) has
\* run: on the same node, or on a node that no longer exists.
IteratorAfterRemove(list, i, value) ==
    IF i = Dangling \/ i \in Positions(list, value)
    THEN Dangling
    ELSE i - Cardinality({ j \in Positions(list, value) : j < i })

\* A call on the subject or on an observer: the operation, the observer it
\* names, and the message it passes.
Call(op, o) == [op |-> op, obs |-> o, message |-> ""]

(***************************************************************************)
(* Observer: state.                                                        *)
(***************************************************************************)
VARIABLES
    list_observer_,         \* Subject::list_observer_
    message_,               \* Subject::message_
    static_number_,         \* Observer::static_number_
    number_,                \* Observer::number_, per constructed observer
    message_from_subject_,  \* Observer::message_from_subject_, per observer
    opc,                    \* position inside Subject::Notify
    it,                     \* Notify's iterator: an index into list_observer_
    attached,               \* history: the attached observers, oldest first
    last,                   \* history: the last call the client made
    before,                 \* history: list_observer_ when that call began
    updates,                \* history: the observers Update ran on in the pass
    passOps,                \* history: calls made from Update in the pass
    ub,                     \* history: a removed list node was dereferenced
    announced,              \* the sizes HowManyObservers printed in the call
    deleted,                \* the observers whose destructor has run
    uaf,                    \* history: Update ran on a destroyed observer
    cpc                     \* ClientCode's next statement, or AnyClient

obsVars == <<list_observer_, message_, static_number_, number_,
             message_from_subject_, opc, it, attached, last, before, updates,
             passOps, ub, announced, deleted, uaf, cpc>>

(***************************************************************************)
(* Observer: a second Subject.                                             *)
(***************************************************************************)
VARIABLES
    list_observer_other,    \* list_observer_ of a second Subject object
    subject_other           \* the observers whose subject_ is that Subject

subVars == <<list_observer_other, subject_other>>

(***************************************************************************)
(* Singleton: values and state.                                            *)
(***************************************************************************)
\* The threads that call Singleton::GetInstance.
Threads == 1 .. MaxThreads

\* The values the threads pass to GetInstance.
Values == { "FOO", "BAR" }

\* Singleton::pinstance_ before the first GetInstance.
nullptr == 0

\* Singleton::mutex_ while no thread holds it.
Unlocked == 0

\* No thread: the threads are numbered from 1.
NoThread == 0

VARIABLES
    pinstance_,             \* Singleton::pinstance_: an index into objects
    mutex_,                 \* Singleton::mutex_: the thread that holds it
    objects,                \* value_ of every Singleton constructed, in order
    tpc,                    \* position of each thread
    arg,                    \* the value each thread passes to GetInstance
    ret,                    \* the pointer GetInstance returned to each thread
    printed,                \* the value each thread printed
    locked_first            \* history: the thread that locked mutex_ first

sglVars == <<pinstance_, mutex_, objects, tpc, arg, ret, printed,
             locked_first>>

(***************************************************************************)
(* Memento: values and state.                                              *)
(***************************************************************************)
\* The state ClientCode constructs the Originator with.
InitialState == "Super-duper-super-puper-super"

\* The strings GenerateRandomString may return.
RandomStrings == { "0G0uNhetKlHmPKtL52MT2wsVApAQlP",
                   "BI4mhltZUuqWvT41jAtw6MhZtghySu" }

\* ConcreteMemento(state): the state it stores.  The date it stores as well
\* is only printed.
ConcreteMemento(state) == [state_ |-> state]

\* ConcreteMemento::GetState
GetState(memento) == memento.state_

\* Originator::Save
Save(state) == ConcreteMemento(state)

\* A back() that returns the first element.
BackIsFront(vector) == vector[1]

\* std::vector::back
Back(vector) == vector[Len(vector)]

\* A pop_back that removes nothing.
PopBackNothing(vector) == vector

\* std::vector::pop_back
PopBack(vector) == SubSeq(vector, 1, Len(vector) - 1)

\* Originator::Restore assigns a string and prints it; it holds no throw
\* statement, and the catch clause of Caretaker::Undo is entered only when
\* Restore throws.
RestoreThrows == FALSE

\* No memento: the value of Undo's local variable outside Undo.
NoMemento == [state_ |-> ""]

VARIABLES
    originator_state_,      \* Originator::state_
    mementos_,              \* Caretaker::mementos_
    memento,                \* Caretaker::Undo: the local variable memento
    mpc,                    \* position inside Caretaker::Undo
    backups,                \* history: the states saved by Backup, in order
    undos,                  \* history: the states restored by the Undo calls
                            \* made since the last Backup or DoSomething
    undone,                 \* history: the mementos Undo calls have removed
    mlast                   \* history: the last call of the client

memVars == <<originator_state_, mementos_, memento, mpc, backups, undos,
             undone, mlast>>

(***************************************************************************)
(* State: values and state.                                                *)
(***************************************************************************)
Contexts == 1 .. MaxContexts

\* The concrete State classes.
StateTypes == { "ConcreteStateA", "ConcreteStateB" }

\* The value of State::context_ before SetContext: State has no constructor
\* and the member has no initializer.
Uninitialized == 0

\* A State object that holds one type whatever was asked for.
NewStateA(type) ==
    [ type |-> "ConcreteStateA", context_ |-> Uninitialized, live |-> TRUE,
      deletes |-> 0 ]

\* new ConcreteStateA, new ConcreteStateB: the dynamic type of the object,
\* its member context_, whether it is alive, and how many delete
\* expressions were applied to it.
NewState(type) ==
    [ type |-> type, context_ |-> Uninitialized, live |-> TRUE,
      deletes |-> 0 ]

\* delete applied twice to the same object.
DeleteTwice(heap, state) ==
    [heap EXCEPT ![state].live = FALSE,
                 ![state].deletes = heap[state].deletes + 2]

\* delete this->state_
Delete(heap, state) ==
    [heap EXCEPT ![state].live = FALSE,
                 ![state].deletes = heap[state].deletes + 1]

\* No request: the value of the history variable request before the first
\* call.
NoRequest == [ctx |-> 0, op |-> "none", from |-> "none", transitions |-> 0]

VARIABLES
    states,                 \* the State objects allocated so far, by address
    state_,                 \* Context::state_ of each Context
    context_status,         \* "none", "live" or "deleted", of each Context
    spc,                    \* position inside the call that is running
    sthis,                  \* this of the handler that is running
    sctx,                   \* this of Context::TransitionTo
    sarg,                   \* the parameter state of Context::TransitionTo
    request,                \* history: the call made last, the type of the
                            \* state it found, and the transitions it made
    trace,                  \* history: the types each Context has been in
    requests,               \* history: the requests each Context was sent
    nrequests,              \* history: the number of requests
    uad                     \* history: a member of a deleted State object
                            \* was read or written

staVars == <<states, state_, context_status, spc, sthis, sctx, sarg, request,
             trace, requests, nrequests, uad>>

(***************************************************************************)
(* Composite: values and state.                                            *)
(***************************************************************************)
Components == 1 .. MaxComponents

\* The concrete Component classes.
ComponentKinds == { "Leaf", "Composite" }

\* A pointer value other than null: it stands for every value but null that
\* an uninitialized pointer may hold.
Indeterminate == -1

\* Component declares no constructor and parent_ has no initializer: after
\* new Leaf or new Composite the member holds any pointer value, null or
\* not.
Pointers == {nullptr, Indeterminate}

\* std::list::remove
ChildrenRemove(list, component) ==
    SelectSeq(list, LAMBDA c : c # component)

\* std::list::back
ChildrenBack(list) == list[Len(list)]

\* No Component: the value of operand when the call made last was not
\* Operation.
NoComponent == 0

\* No string: the value of result when the call made last was not
\* Operation, or was an Operation that does not return.
NoResult == "(no result)"

VARIABLES
    kind,                   \* the class of each Component, "none" before new
    parent_,                \* Component::parent_
    children_,              \* Composite::children_
    result,                 \* ClientCode: what the call of Operation returned
    operand,                \* history: the Component Operation was called on
    linked,                 \* history: the Components handed to Add or Remove
                            \* of a Composite
    nadds                   \* history: the number of Add calls

cmpVars == <<kind, parent_, children_, result, operand, linked, nadds>>

(***************************************************************************)
(* Builder: values and state.                                              *)
(***************************************************************************)
\* The strings the production steps of ConcreteBuilder1 push.
Parts == { "PartA1", "PartB1", "PartC1" }

\* new Product1(): the member parts_, and whether the object is alive.
NewProduct1 == [parts_ |-> <<>>, live |-> TRUE]

VARIABLES
    products,               \* the Product1 objects allocated so far, by address
    product,                \* ConcreteBuilder1::product
    builder,                \* "live" or "deleted": ClientCode's builder
    client_p,               \* ClientCode: the local variable p
    since,                  \* history: the parts produced since the builder
                            \* was constructed or GetProduct was called
    handed,                 \* history: the products GetProduct returned, with
                            \* the parts each held then
    nproduced               \* history: the number of parts produced

bldVars == <<products, product, builder, client_p, since, handed,
             nproduced>>

(***************************************************************************)
(* Mediator: values and state.                                             *)
(***************************************************************************)
\* The address of ClientCode's ConcreteMediator.
TheMediator == 1

\* The operations of Component1 and Component2.
ComponentOperations == { "DoA", "DoB", "DoC", "DoD" }

\* The event each operation hands to Mediator::Notify.
Event(op) ==
    CASE op = "DoA" -> "A"
      [] op = "DoB" -> "B"
      [] op = "DoC" -> "C"
      [] op = "DoD" -> "D"

\* Reactions that call DoC before DoB when the event is D.
ReactionsSwapped(event) ==
    (IF event = "A" THEN <<"DoC">> ELSE <<>>)
        \o (IF event = "D" THEN <<"DoC", "DoB">> ELSE <<>>)

\* ConcreteMediator::Notify: the operations it calls for an event, in the
\* order of the calls.
Reactions(event) ==
    (IF event = "A" THEN <<"DoC">> ELSE <<>>)
        \o (IF event = "D" THEN <<"DoB", "DoC">> ELSE <<>>)

VARIABLES
    mediator_,              \* BaseComponent::mediator_ of c1 and c2
    calls,                  \* the calls that have not returned, last on top
    chain,                  \* history: the operations executed since the
                            \* client called one
    triggers                \* history: the operations the client has called

medVars == <<mediator_, calls, chain, triggers>>

\* What the operations of one component leave alone: the variables of the
\* other components.  ClientCode's position is moved by the statements of
\* ClientCode and by nothing else.
notFly == <<obsVars, subVars, sglVars, memVars, staVars, cmpVars, bldVars,
            medVars>>
notObs == <<flyVars, subVars, sglVars, memVars, staVars, cmpVars, bldVars,
            medVars>>
notSub == <<flyVars, sglVars, memVars, staVars, cmpVars, bldVars, medVars>>
notSgl == <<flyVars, obsVars, subVars, memVars, staVars, cmpVars, bldVars,
            medVars>>
notMem == <<flyVars, obsVars, subVars, sglVars, staVars, cmpVars, bldVars,
            medVars>>
notSta == <<flyVars, obsVars, subVars, sglVars, memVars, cmpVars, bldVars,
            medVars>>
notCmp == <<flyVars, obsVars, subVars, sglVars, memVars, staVars, bldVars,
            medVars>>
notBld == <<flyVars, obsVars, subVars, sglVars, memVars, staVars, cmpVars,
            medVars>>
notMed == <<flyVars, obsVars, subVars, sglVars, memVars, staVars, cmpVars,
            bldVars>>

vars == <<flyVars, obsVars, subVars, sglVars, memVars, staVars, cmpVars,
          bldVars, medVars>>

(***************************************************************************)
(* Flyweight: operations.                                                  *)
(***************************************************************************)
\* FlyweightFactory::GetFlyweight, called from AddCarToPoliceDatabase.  On a
\* miss the temporary Flyweight, the pair made from it and the map's node each
\* hold a SharedState of their own; the two temporaries are destroyed when the
\* insert statement ends.  The flyweight is returned by value: the caller
\* receives a copy of the stored entry.
GetFlyweight(shared_state) ==
    /\ factory
    /\ fpc = "idle"
    /\ Len(log) < MaxCalls
    /\ LET key == GetKey(shared_state)
           stored == StoreOnMiss(flyweights_, shared_state)
           inserted == Cardinality(DOMAIN stored) - Count
       IN  /\ flyweights_' = stored
           /\ handle' = FlyweightCopy(stored[key])
           /\ nShared' = nShared + inserted + 1
           /\ log' = Append(log,
                  [arg    |-> shared_state,
                   key    |-> key,
                   report |-> Report(flyweights_, shared_state),
                   ret    |-> FlyweightCopy(stored[key]).shared_state_,
                   count0 |-> Count,
                   count1 |-> Cardinality(DOMAIN stored),
                   live0  |-> nShared,
                   live1  |-> nShared + inserted + 1])
    /\ fpc' = "held"
    /\ UNCHANGED <<factory, displayed, listed, seeded>>
    /\ UNCHANGED notFly

\* Flyweight::Operation on the flyweight the client holds.
Operation(unique_state) ==
    /\ fpc = "held"
    /\ displayed' = OperationOutput(handle, unique_state)
    /\ fpc' = "operated"
    /\ UNCHANGED <<factory, flyweights_, nShared, handle, listed, seeded, log>>
    /\ UNCHANGED notFly

\* AddCarToPoliceDatabase returns: the flyweight it received is destroyed.
ReleaseHandle ==
    /\ fpc = "operated"
    /\ handle' = NoHandle
    /\ nShared' = nShared - 1
    /\ fpc' = "idle"
    /\ UNCHANGED <<factory, flyweights_, displayed, listed, seeded, log>>
    /\ UNCHANGED notFly

\* FlyweightFactory::ListFlyweights: every pair is copied for the loop body
\* and destroyed again.
ListFlyweights ==
    /\ factory
    /\ fpc = "idle"
    /\ listed' = [count |-> Count, keys |-> DOMAIN flyweights_]
    /\ UNCHANGED <<factory, flyweights_, nShared, fpc, handle, displayed,
                   seeded, log>>
    /\ UNCHANGED notFly

\* main(): delete factory.  The map and every stored flyweight are destroyed.
DeleteFactory ==
    /\ factory
    /\ fpc = "idle"
    /\ factory' = FALSE
    /\ flyweights_' = EmptyMap
    /\ nShared' = nShared - Count
    /\ UNCHANGED <<fpc, handle, displayed, listed, seeded, log>>
    /\ UNCHANGED notFly

(***************************************************************************)
(* Observer: operations.                                                   *)
(***************************************************************************)
\* ClientCode(): new Subject.  No Observer exists yet.
ObsInit ==
    /\ list_observer_ = <<>>
    /\ message_ = ""
    /\ static_number_ = 0
    /\ number_ = <<>>
    /\ message_from_subject_ = <<>>
    /\ opc = "idle"
    /\ it = Dangling
    /\ attached = <<>>
    /\ last = Call("Subject", 0)
    /\ before = <<>>
    /\ updates = <<>>
    /\ passOps = <<>>
    /\ ub = FALSE
    /\ announced = <<>>
    /\ deleted = {}
    /\ uaf = FALSE

Constructed == DOMAIN number_

\* History of a call the client makes between two passes.
Record(op, o) ==
    /\ last' = Call(op, o)
    /\ before' = list_observer_
    /\ updates' = <<>>
    /\ passOps' = <<>>
    /\ announced' = <<>>

\* History: observer is attached now, after those attached before it.
NoteAttach(observer) == attached' = Append(attached, observer)

\* History: observer is attached no more.
NoteDetach(observer) ==
    attached' = SelectSeq(attached, LAMBDA o : o # observer)

\* The value of n++: the counter as it was.
PostIncrement(n) == n

\* The value of ++n: the counter after the increment.
PreIncrement(n) == n + 1

\* Observer::Observer(Subject&): attaches itself, then draws its number.  The
\* new object is the next one of the program: observers are named by the
\* order of their construction.
ObserverCtor ==
    /\ opc = "idle"
    /\ LET this == Len(number_) + 1
       IN  /\ list_observer_' = PushBack(list_observer_, this)
           /\ static_number_' = static_number_ + 1
           /\ number_' = Append(number_, PreIncrement(static_number_))
           /\ message_from_subject_' = Append(message_from_subject_, "")
           /\ NoteAttach(this)
           /\ Record("Observer", this)
    /\ UNCHANGED <<message_, opc, it, ub, deleted, uaf>>
    /\ UNCHANGED notObs

\* new Observer(*subject), as often as the bounds allow.
NewObserver ==
    /\ Len(number_) < MaxObservers
    /\ Len(list_observer_) < MaxList
    /\ ObserverCtor

\* A destructor that detaches: the one with the commented-out call restored.
DeleteObserverDetaching(this) ==
    /\ opc = "idle"
    /\ this \in Constructed \ deleted
    /\ deleted' = deleted \cup { this }
    /\ list_observer_' = ListRemove(list_observer_, this)
    /\ NoteDetach(this)
    /\ Record("~Observer", this)
    /\ UNCHANGED <<message_, static_number_, number_, message_from_subject_,
                   opc, it, ub, uaf>>
    /\ UNCHANGED notObs

\* Observer::~Observer: prints its number.  The call to Detach is commented
\* out, the subject's list is not touched.
DeleteObserver(this) ==
    /\ opc = "idle"
    /\ this \in Constructed \ deleted
    /\ deleted' = deleted \cup { this }
    /\ Record("~Observer", this)
    /\ UNCHANGED <<list_observer_, message_, static_number_, number_,
                   message_from_subject_, opc, it, attached, ub, uaf>>
    /\ UNCHANGED notObs

\* Subject::Attach
Attach(observer) ==
    /\ opc = "idle"
    /\ observer \in Constructed
    /\ Len(list_observer_) < MaxList
    /\ list_observer_' = PushBack(list_observer_, observer)
    /\ NoteAttach(observer)
    /\ Record("Attach", observer)
    /\ UNCHANGED <<message_, static_number_, number_, message_from_subject_,
                   opc, it, ub, deleted, uaf>>
    /\ UNCHANGED notObs

\* Subject::Detach
Detach(observer) ==
    /\ opc = "idle"
    /\ observer \in Constructed
    /\ list_observer_' = ListRemove(list_observer_, observer)
    /\ NoteDetach(observer)
    /\ Record("Detach", observer)
    /\ UNCHANGED <<message_, static_number_, number_, message_from_subject_,
                   opc, it, ub, deleted, uaf>>
    /\ UNCHANGED notObs

\* Observer::RemoveMeFromTheList
RemoveMeFromTheList(this) ==
    /\ opc = "idle"
    /\ this \in Constructed \ deleted
    /\ list_observer_' = ListRemove(list_observer_, this)
    /\ NoteDetach(this)
    /\ Record("RemoveMeFromTheList", this)
    /\ UNCHANGED <<message_, static_number_, number_, message_from_subject_,
                   opc, it, ub, deleted, uaf>>
    /\ UNCHANGED notObs

\* std::list::begin
Begin(list) == 1

\* std::list::end
End(list) == Len(list) + 1

\* The size a HowManyObservers of a faulty build would print.
HowManyObserversOffByOne(list) == Len(list) + 1

\* Subject::HowManyObservers: the size it prints.
HowManyObservers(list) == Len(list)

\* Subject::Notify up to the loop: it = begin(), then HowManyObservers().
BeginPass(op, message) ==
    /\ it' = Begin(list_observer_)
    /\ announced' = <<HowManyObservers(list_observer_)>>
    /\ opc' = "loop"
    /\ last' = [Call(op, 0) EXCEPT !.message = message]
    /\ before' = list_observer_
    /\ updates' = <<>>
    /\ passOps' = <<>>

\* Subject::Notify called by the client.
Notify ==
    /\ opc = "idle"
    /\ BeginPass("Notify", "")
    /\ UNCHANGED <<list_observer_, message_, static_number_, number_,
                   message_from_subject_, attached, ub, deleted, uaf>>
    /\ UNCHANGED notObs

\* Subject::CreateMessage
CreateMessage(message) ==
    /\ opc = "idle"
    /\ message_' = message
    /\ BeginPass("CreateMessage", message)
    /\ UNCHANGED <<list_observer_, static_number_, number_,
                   message_from_subject_, attached, ub, deleted, uaf>>
    /\ UNCHANGED notObs

\* An Update that stores the message in every observer of the program.
UpdateEveryone(messages, this, message_from_subject) ==
    [o \in DOMAIN messages |-> message_from_subject]

\* Observer::Update: stores the message in this observer; PrintInfo prints
\* it.  messages holds message_from_subject_ of every observer.
Update(messages, this, message_from_subject) ==
    [messages EXCEPT ![this] = message_from_subject]

\* Subject::Notify, loop body: (*it)->Update(message_).  On an observer
\* that was destroyed the call goes through freed memory: it may run as on
\* a live object, or the program may crash.
NotifyUpdate ==
    /\ opc = "loop"
    /\ it # End(list_observer_)
    /\ LET observer == list_observer_[it]
       IN  /\ updates' = Append(updates, observer)
           /\ uaf' = (uaf \/ observer \in deleted)
           /\ \/ /\ message_from_subject_' =
                        Update(message_from_subject_, observer, message_)
                 /\ opc' = "update"
              \/ /\ observer \in deleted
                 /\ message_from_subject_' = message_from_subject_
                 /\ opc' = "crashed"
    /\ UNCHANGED <<list_observer_, message_, static_number_, number_, it,
                   attached, last, before, passOps, ub, announced, deleted>>
    /\ UNCHANGED notObs

\* Subject::Attach called from inside an IObserver::Update.
UpdateAttaches(observer) ==
    /\ opc = "update"
    /\ observer \in Constructed
    /\ Len(list_observer_) < MaxList
    /\ Len(passOps) < MaxPassOps
    /\ list_observer_' = PushBack(list_observer_, observer)
    /\ NoteAttach(observer)
    /\ passOps' = Append(passOps, Call("Attach", observer))
    /\ UNCHANGED <<message_, static_number_, number_, message_from_subject_,
                   opc, it, last, before, updates, ub, announced, deleted,
                   uaf>>
    /\ UNCHANGED notObs

\* Subject::Detach called from inside an IObserver::Update.  Erasing the
\* node the iterator stands on leaves the iterator dangling.
UpdateDetaches(observer) ==
    /\ opc = "update"
    /\ observer \in Constructed
    /\ Len(passOps) < MaxPassOps
    /\ list_observer_' = ListRemove(list_observer_, observer)
    /\ it' = IteratorAfterRemove(list_observer_, it, observer)
    /\ NoteDetach(observer)
    /\ passOps' = Append(passOps, Call("Detach", observer))
    /\ UNCHANGED <<message_, static_number_, number_, message_from_subject_,
                   opc, last, before, updates, ub, announced, deleted, uaf>>
    /\ UNCHANGED notObs

\* Subject::Notify, loop body: ++it.  Incrementing an iterator whose node was
\* erased reads freed memory: it may land on any node or on end(), or the
\* program may crash.
NotifyAdvance ==
    /\ opc = "update"
    /\ IF it # Dangling
       THEN /\ it' = it + 1
            /\ opc' = "loop"
            /\ ub' = ub
       ELSE /\ ub' = TRUE
            /\ \/ /\ it' \in Begin(list_observer_) .. End(list_observer_)
                  /\ opc' = "loop"
               \/ /\ it' = Dangling
                  /\ opc' = "crashed"
    /\ UNCHANGED <<list_observer_, message_, static_number_, number_,
                   message_from_subject_, attached, last, before, updates,
                   passOps, announced, deleted, uaf>>
    /\ UNCHANGED notObs

\* Subject::Notify returns: it == end().
NotifyReturn ==
    /\ opc = "loop"
    /\ it = End(list_observer_)
    /\ opc' = "idle"
    /\ it' = Dangling
    /\ UNCHANGED <<list_observer_, message_, static_number_, number_,
                   message_from_subject_, attached, last, before, updates,
                   passOps, ub, announced, deleted, uaf>>
    /\ UNCHANGED notObs

(***************************************************************************)
(* Observer: ClientCode.                                                   *)
(***************************************************************************)
\* The value of cpc while the subject is driven by a client other than
\* ClientCode: one that may make any call of ISubject and Observer.
AnyClient == 0

Stmt(op, o, message) == [op |-> op, obs |-> o, message |-> message]

\* The statements of ClientCode() after new Subject, in program order.
ClientCode ==
    << Stmt("Observer", 1, ""),
       Stmt("Observer", 2, ""),
       Stmt("Observer", 3, ""),
       Stmt("CreateMessage", 0, "Hello World! :D"),
       Stmt("RemoveMeFromTheList", 3, ""),
       Stmt("CreateMessage", 0, "The weather is hot today! :P"),
       Stmt("Observer", 4, ""),
       Stmt("RemoveMeFromTheList", 2, ""),
       Stmt("Observer", 5, ""),
       Stmt("CreateMessage", 0, "My new car is great! ;)"),
       Stmt("RemoveMeFromTheList", 5, ""),
       Stmt("RemoveMeFromTheList", 4, ""),
       Stmt("RemoveMeFromTheList", 1, ""),
       Stmt("~Observer", 5, ""),
       Stmt("~Observer", 4, ""),
       Stmt("~Observer", 3, ""),
       Stmt("~Observer", 2, ""),
       Stmt("~Observer", 1, ""),
       Stmt("~Subject", 0, "") >>

\* ClientCode is at a statement of the kind op.
ClientAt(op) == cpc \in DOMAIN ClientCode /\ ClientCode[cpc].op = op

\* observerN = new Observer(*subject)
ClientNew ==
    /\ ClientAt("Observer")
    /\ ClientCode[cpc].obs = Len(number_) + 1
    /\ ObserverCtor
    /\ cpc' = cpc + 1

\* subject->CreateMessage(text).  The text is an input of the run: the
\* literal of the statement, or one of Messages.
ClientCreateMessage ==
    /\ ClientAt("CreateMessage")
    /\ \E message \in Messages \cup { ClientCode[cpc].message } :
           CreateMessage(message)
    /\ cpc' = cpc + 1

\* observerN->RemoveMeFromTheList()
ClientRemove ==
    /\ ClientAt("RemoveMeFromTheList")
    /\ RemoveMeFromTheList(ClientCode[cpc].obs)
    /\ cpc' = cpc + 1

\* delete observerN
ClientDelete ==
    /\ ClientAt("~Observer")
    /\ DeleteObserver(ClientCode[cpc].obs)
    /\ cpc' = cpc + 1

\* delete subject: the list and the message are destroyed with it.
ClientDeleteSubject ==
    /\ ClientAt("~Subject")
    /\ opc = "idle"
    /\ list_observer_' = <<>>
    /\ message_' = ""
    /\ attached' = <<>>
    /\ Record("~Subject", 0)
    /\ cpc' = cpc + 1
    /\ UNCHANGED <<static_number_, number_, message_from_subject_, opc, it,
                   ub, deleted, uaf>>
    /\ UNCHANGED notObs

(***************************************************************************)
(* Observer: operations on a second Subject.                               *)
(***************************************************************************)
\* No second Subject has been used.
SubInit ==
    /\ list_observer_other = <<>>
    /\ subject_other = {}

\* A constructor that attaches the observer to the first Subject whatever
\* subject it was given.
OtherObserverCtorOnFirst ==
    /\ opc = "idle"
    /\ Len(number_) < MaxObservers
    /\ Len(list_observer_) < MaxList
    /\ LET this == Len(number_) + 1
       IN  /\ list_observer_' = PushBack(list_observer_, this)
           /\ subject_other' = subject_other \cup { this }
           /\ static_number_' = static_number_ + 1
           /\ number_' = Append(number_, PreIncrement(static_number_))
           /\ message_from_subject_' = Append(message_from_subject_, "")
    /\ UNCHANGED <<list_observer_other, message_, opc, it, attached, last,
                   before, updates, passOps, ub, announced, deleted, uaf, cpc>>
    /\ UNCHANGED notSub

\* Observer::Observer(Subject&) with the second Subject as its argument: the
\* observer attaches itself to that subject, then draws its number.
OtherObserverCtor ==
    /\ opc = "idle"
    /\ Len(number_) < MaxObservers
    /\ Len(list_observer_other) < MaxList
    /\ LET this == Len(number_) + 1
       IN  /\ list_observer_other' = PushBack(list_observer_other, this)
           /\ subject_other' = subject_other \cup { this }
           /\ static_number_' = static_number_ + 1
           /\ number_' = Append(number_, PreIncrement(static_number_))
           /\ message_from_subject_' = Append(message_from_subject_, "")
    /\ UNCHANGED <<list_observer_, message_, opc, it, attached, last, before,
                   updates, passOps, ub, announced, deleted, uaf, cpc>>
    /\ UNCHANGED notSub

\* Subject::Attach on the second Subject.
OtherAttach(observer) ==
    /\ opc = "idle"
    /\ observer \in Constructed
    /\ Len(list_observer_other) < MaxList
    /\ list_observer_other' = PushBack(list_observer_other, observer)
    /\ UNCHANGED <<obsVars, subject_other>>
    /\ UNCHANGED notSub

\* Subject::Detach on the second Subject.
OtherDetach(observer) ==
    /\ opc = "idle"
    /\ observer \in Constructed
    /\ list_observer_other' = ListRemove(list_observer_other, observer)
    /\ UNCHANGED <<obsVars, subject_other>>
    /\ UNCHANGED notSub

\* Observer::RemoveMeFromTheList of an observer whose subject_ is the second
\* Subject.
OtherRemoveMeFromTheList(this) ==
    /\ this \in subject_other
    /\ OtherDetach(this)

(***************************************************************************)
(* Singleton: operations.                                                  *)
(***************************************************************************)
\* main() has created the threads; no thread has reached GetInstance.  Each
\* thread passes one of Values.
SglInit ==
    /\ pinstance_ = nullptr
    /\ mutex_ = Unlocked
    /\ objects = <<>>
    /\ tpc = [t \in Threads |-> "GetInstance"]
    /\ arg \in [Threads -> Values]
    /\ ret = [t \in Threads |-> nullptr]
    /\ printed = [t \in Threads |-> ""]
    /\ locked_first = NoThread

\* The Singleton demonstration is not running.
SglIdle ==
    /\ pinstance_ = nullptr
    /\ mutex_ = Unlocked
    /\ objects = <<>>
    /\ tpc = [t \in Threads |-> "done"]
    /\ arg = [t \in Threads |-> "FOO"]
    /\ ret = [t \in Threads |-> nullptr]
    /\ printed = [t \in Threads |-> ""]
    /\ locked_first = NoThread

\* A mutex any thread may lock, whoever holds it.
CanLockAlways(mutex) == TRUE

\* std::mutex: a thread may lock it while no thread holds it.
CanLock(mutex) == mutex = Unlocked

\* The first statements of a GetInstance with double-checked locking: the
\* pointer is tested first, and the mutex is locked only while it is null.
LockGuardIfNull(t) ==
    /\ tpc[t] = "GetInstance"
    /\ IF pinstance_ = nullptr
       THEN /\ CanLock(mutex_)
            /\ mutex_' = t
            /\ locked_first' =
                   IF locked_first = NoThread THEN t ELSE locked_first
            /\ tpc' = [tpc EXCEPT ![t] = "test"]
       ELSE /\ tpc' = [tpc EXCEPT ![t] = "return"]
            /\ UNCHANGED <<mutex_, locked_first>>
    /\ UNCHANGED <<pinstance_, objects, arg, ret, printed>>
    /\ UNCHANGED notSgl

\* GetInstance: std::lock_guard<std::mutex> lock(mutex_).  The thread waits
\* until it may lock the mutex.
LockGuard(t) ==
    /\ tpc[t] = "GetInstance"
    /\ CanLock(mutex_)
    /\ mutex_' = t
    /\ locked_first' = IF locked_first = NoThread THEN t ELSE locked_first
    /\ tpc' = [tpc EXCEPT ![t] = "test"]
    /\ UNCHANGED <<pinstance_, objects, arg, ret, printed>>
    /\ UNCHANGED notSgl

\* GetInstance: if (pinstance_ == nullptr)
TestInstance(t) ==
    /\ tpc[t] = "test"
    /\ tpc' = [tpc EXCEPT ![t] = IF pinstance_ = nullptr
                                 THEN "new"
                                 ELSE "return"]
    /\ UNCHANGED <<pinstance_, mutex_, objects, arg, ret, printed,
                   locked_first>>
    /\ UNCHANGED notSgl

\* GetInstance: pinstance_ = new Singleton(value).  The constructor stores
\* value in the new object.
NewSingleton(t) ==
    /\ tpc[t] = "new"
    /\ objects' = Append(objects, arg[t])
    /\ pinstance_' = Len(objects) + 1
    /\ tpc' = [tpc EXCEPT ![t] = "return"]
    /\ UNCHANGED <<mutex_, arg, ret, printed, locked_first>>
    /\ UNCHANGED notSgl

\* A return that leaves the mutex locked.
ReturnInstanceLocked(t) ==
    /\ tpc[t] = "return"
    /\ ret' = [ret EXCEPT ![t] = pinstance_]
    /\ tpc' = [tpc EXCEPT ![t] = "GetValue"]
    /\ UNCHANGED <<pinstance_, mutex_, objects, arg, printed, locked_first>>
    /\ UNCHANGED notSgl

\* GetInstance: return pinstance_.  The lock_guard is destroyed after the
\* pointer was read, and unlocks the mutex.
ReturnInstance(t) ==
    /\ tpc[t] = "return"
    /\ ret' = [ret EXCEPT ![t] = pinstance_]
    /\ mutex_' = Unlocked
    /\ tpc' = [tpc EXCEPT ![t] = "GetValue"]
    /\ UNCHANGED <<pinstance_, objects, arg, printed, locked_first>>
    /\ UNCHANGED notSgl

\* ThreadFoo, ThreadBar: std::cout << singleton->GetValue()
GetValue(t) ==
    /\ tpc[t] = "GetValue"
    /\ printed' = [printed EXCEPT ![t] = objects[ret[t]]]
    /\ tpc' = [tpc EXCEPT ![t] = "done"]
    /\ UNCHANGED <<pinstance_, mutex_, objects, arg, ret, locked_first>>
    /\ UNCHANGED notSgl

(***************************************************************************)
(* Memento: operations.                                                    *)
(***************************************************************************)
\* ClientCode(): new Originator(InitialState), new Caretaker(originator).
MemInit ==
    /\ originator_state_ = InitialState
    /\ mementos_ = <<>>
    /\ memento = NoMemento
    /\ mpc = "idle"
    /\ backups = <<>>
    /\ undos = <<>>
    /\ undone = 0
    /\ mlast = "Caretaker"

\* Originator::DoSomething: the state becomes a random string.
DoSomething ==
    /\ mpc = "idle"
    /\ originator_state_' \in RandomStrings
    /\ undos' = <<>>
    /\ mlast' = "DoSomething"
    /\ UNCHANGED <<mementos_, memento, mpc, backups, undone>>
    /\ UNCHANGED notMem

\* Caretaker::Backup
Backup ==
    /\ mpc = "idle"
    /\ Len(backups) < MaxBackups
    /\ mementos_' = Append(mementos_, Save(originator_state_))
    /\ backups' = Append(backups, originator_state_)
    /\ undos' = <<>>
    /\ mlast' = "Backup"
    /\ UNCHANGED <<originator_state_, memento, mpc, undone>>
    /\ UNCHANGED notMem

\* Caretaker::Undo up to the try block: returns at once when the history is
\* empty, takes the last memento off the history otherwise.
UndoBegin ==
    /\ IF Len(mementos_) = 0
       THEN /\ mpc' = "idle"
            /\ memento' = NoMemento
            /\ UNCHANGED <<mementos_, undone>>
       ELSE /\ mpc' = "try"
            /\ memento' = Back(mementos_)
            /\ mementos_' = PopBack(mementos_)
            /\ undone' = undone + 1
    /\ UNCHANGED <<originator_state_, backups, undos>>

\* Caretaker::Undo called by the client.
Undo ==
    /\ mpc = "idle"
    /\ mlast' = "Undo"
    /\ UndoBegin
    /\ UNCHANGED notMem

\* Caretaker::Undo, the try block: Originator::Restore(memento), and the
\* catch clause: this->Undo().
UndoTry ==
    /\ mpc = "try"
    /\ IF RestoreThrows
       THEN UndoBegin
       ELSE /\ originator_state_' = GetState(memento)
            /\ undos' = Append(undos, GetState(memento))
            /\ memento' = NoMemento
            /\ mpc' = "idle"
            /\ UNCHANGED <<mementos_, backups, undone>>
    /\ UNCHANGED mlast
    /\ UNCHANGED notMem

(***************************************************************************)
(* State: operations.                                                      *)
(***************************************************************************)
\* No Context and no State object exists.
StaInit ==
    /\ states = <<>>
    /\ state_ = [c \in Contexts |-> nullptr]
    /\ context_status = [c \in Contexts |-> "none"]
    /\ spc = "idle"
    /\ sthis = nullptr
    /\ sctx = 0
    /\ sarg = nullptr
    /\ request = NoRequest
    /\ trace = [c \in Contexts |-> <<>>]
    /\ requests = [c \in Contexts |-> <<>>]
    /\ nrequests = 0
    /\ uad = FALSE

\* A member of the State object at address state of heap is read or
\* written.
Access(heap, state) == uad' = (uad \/ ~heap[state].live)

\* new Context(new ConcreteStateA), new Context(new ConcreteStateB): the
\* State object, the member initializer state_(nullptr), and the call of
\* TransitionTo.
NewContext(c, type) ==
    /\ spc = "idle"
    /\ context_status[c] = "none"
    /\ states' = Append(states, NewState(type))
    /\ state_' = [state_ EXCEPT ![c] = nullptr]
    /\ context_status' = [context_status EXCEPT ![c] = "live"]
    /\ sctx' = c
    /\ sarg' = Len(states) + 1
    /\ spc' = "TransitionTo"
    /\ request' = [ctx |-> c, op |-> "Context", from |-> "none",
                   transitions |-> 0]
    /\ UNCHANGED <<sthis, trace, requests, nrequests, uad>>
    /\ UNCHANGED notSta

\* Context::TransitionTo: typeid(*state), delete this->state_ when it is not
\* null, this->state_ = state, state->SetContext(this).
TransitionTo ==
    /\ spc = "TransitionTo"
    /\ LET heap == IF state_[sctx] # nullptr
                   THEN Delete(states, state_[sctx])
                   ELSE states
       IN  /\ uad' = (uad \/ ~states[sarg].live \/ ~heap[sarg].live)
           /\ states' = [heap EXCEPT ![sarg].context_ = sctx]
    /\ state_' = [state_ EXCEPT ![sctx] = sarg]
    /\ trace' = [trace EXCEPT ![sctx] = Append(@, states[sarg].type)]
    /\ request' = [request EXCEPT !.transitions = @ + 1]
    /\ spc' = "Return"
    /\ UNCHANGED <<context_status, sthis, sctx, sarg, requests, nrequests>>
    /\ UNCHANGED notSta

\* TransitionTo has returned to the constructor of Context or to the
\* handler that called it, which returns in its turn.
Return ==
    /\ spc = "Return"
    /\ spc' = "idle"
    /\ sthis' = nullptr
    /\ sctx' = 0
    /\ sarg' = nullptr
    /\ UNCHANGED <<states, state_, context_status, request, trace, requests,
                   nrequests, uad>>
    /\ UNCHANGED notSta

\* A call of a handler through this->state_: the dynamic type of the object
\* selects the handler.
Delegate(c, op, handler) ==
    /\ context_status[c] = "live"
    /\ nrequests < MaxRequests
    /\ Access(states, state_[c])
    /\ sthis' = state_[c]
    /\ spc' = handler
    /\ request' = [ctx |-> c, op |-> op, from |-> states[state_[c]].type,
                   transitions |-> 0]
    /\ requests' = [requests EXCEPT ![c] = Append(@, op)]
    /\ nrequests' = nrequests + 1
    /\ UNCHANGED <<states, state_, context_status, sctx, sarg, trace>>
    /\ UNCHANGED notSta

\* Context::Request1
Request1(c) ==
    /\ spc = "idle"
    /\ Delegate(c, "Request1", "Handle1")

\* Context::Request2
Request2(c) ==
    /\ spc = "idle"
    /\ Delegate(c, "Request2", "Handle2")

\* A handler that prints and returns.
HandlePrints ==
    /\ spc' = "idle"
    /\ sthis' = nullptr
    /\ UNCHANGED <<states, sctx, sarg, uad>>

\* A handler that calls this->context_->TransitionTo(new type).
HandleTransitions(type) ==
    /\ Access(states, sthis)
    /\ states' = Append(states, NewState(type))
    /\ sctx' = states[sthis].context_
    /\ sarg' = Len(states) + 1
    /\ spc' = "TransitionTo"
    /\ UNCHANGED sthis

\* ConcreteStateA::Handle1, ConcreteStateB::Handle1
Handle1 ==
    /\ spc = "Handle1"
    /\ IF states[sthis].type = "ConcreteStateA"
       THEN HandleTransitions("ConcreteStateB")
       ELSE HandlePrints
    /\ UNCHANGED <<state_, context_status, request, trace, requests,
                   nrequests>>
    /\ UNCHANGED notSta

\* ConcreteStateA::Handle2, ConcreteStateB::Handle2
Handle2 ==
    /\ spc = "Handle2"
    /\ IF states[sthis].type = "ConcreteStateB"
       THEN HandleTransitions("ConcreteStateA")
       ELSE HandlePrints
    /\ UNCHANGED <<state_, context_status, request, trace, requests,
                   nrequests>>
    /\ UNCHANGED notSta

\* delete context: Context declares no destructor, and the State object it
\* points to stays allocated.
DeleteContext(c) ==
    /\ spc = "idle"
    /\ context_status[c] = "live"
    /\ context_status' = [context_status EXCEPT ![c] = "deleted"]
    /\ request' = [ctx |-> c, op |-> "delete", from |-> "none",
                   transitions |-> 0]
    /\ UNCHANGED <<states, state_, spc, sthis, sctx, sarg, trace, requests,
                   nrequests, uad>>
    /\ UNCHANGED notSta

(***************************************************************************)
(* Composite: operations.                                                  *)
(***************************************************************************)
\* main() before the first new.
CmpInit ==
    /\ kind = [c \in Components |-> "none"]
    /\ parent_ = [c \in Components |-> nullptr]
    /\ children_ = [c \in Components |-> <<>>]
    /\ result = NoResult
    /\ operand = NoComponent
    /\ linked = {}
    /\ nadds = 0

\* new Leaf, new Composite: the objects are numbered in the order of their
\* construction.
NewComponent(c, k) ==
    /\ kind[c] = "none"
    /\ \A d \in 1 .. c - 1 : kind[d] # "none"
    /\ kind' = [kind EXCEPT ![c] = k]
    /\ \E pointer \in Pointers : parent_' = [parent_ EXCEPT ![c] = pointer]
    /\ result' = NoResult
    /\ operand' = NoComponent
    /\ UNCHANGED <<children_, linked, nadds>>
    /\ UNCHANGED notCmp

\* Component::SetParent
SetParent(this, parent) == parent_' = [parent_ EXCEPT ![this] = parent]

\* Component::Add, which does nothing, and Composite::Add.
Add(this, component) ==
    /\ kind[this] # "none"
    /\ kind[component] # "none"
    /\ nadds < MaxAdds
    /\ IF kind[this] = "Composite"
       THEN /\ children_' = [children_ EXCEPT ![this] = Append(@, component)]
            /\ SetParent(component, this)
            /\ linked' = linked \cup {component}
       ELSE UNCHANGED <<children_, parent_, linked>>
    /\ nadds' = nadds + 1
    /\ result' = NoResult
    /\ operand' = NoComponent
    /\ UNCHANGED kind
    /\ UNCHANGED notCmp

\* Component::Remove, which does nothing, and Composite::Remove.
Remove(this, component) ==
    /\ kind[this] # "none"
    /\ kind[component] # "none"
    /\ IF kind[this] = "Composite"
       THEN /\ children_' = [children_ EXCEPT
                                ![this] = ChildrenRemove(@, component)]
            /\ SetParent(component, nullptr)
            /\ linked' = linked \cup {component}
       ELSE UNCHANGED <<children_, parent_, linked>>
    /\ result' = NoResult
    /\ operand' = NoComponent
    /\ UNCHANGED <<kind, nadds>>
    /\ UNCHANGED notCmp

\* The Components a walk that starts at the children of the Components of
\* from reaches in at most n steps.
RECURSIVE Descendants(_, _)
Descendants(from, n) ==
    IF n = 0
    THEN {}
    ELSE LET below == UNION { { children_[c][i] : i \in DOMAIN children_[c] }
                              : c \in from }
         IN  below \cup Descendants(below, n - 1)

\* Operation called on this calls Operation on this again before it
\* returns: the recursion has no end.
Recurs(this) == \E c \in Descendants({this}, MaxComponents) \cup {this} :
                    c \in Descendants({c}, MaxComponents)

\* Leaf::Operation
LeafOperation == "Leaf"

\* Composite::Operation, and the loop over children_ from its i-th element.
RECURSIVE CompositeOperation(_)
RECURSIVE CompositeOperationLoop(_, _)
CompositeOperation(this) ==
    IF kind[this] = "Leaf"
    THEN LeafOperation
    ELSE "Branch ( " \o CompositeOperationLoop(this, 1) \o " )"

CompositeOperationLoop(this, i) ==
    IF i > Len(children_[this])
    THEN ""
    ELSE LET c == children_[this][i]
         IN  (IF c = ChildrenBack(children_[this])
              THEN CompositeOperation(c)
              ELSE CompositeOperation(c) \o " + ")
                 \o CompositeOperationLoop(this, i + 1)

\* ClientCode(component): component->Operation().
CompositeClientCode(component) ==
    /\ kind[component] # "none"
    /\ result' = IF Recurs(component)
                 THEN NoResult
                 ELSE CompositeOperation(component)
    /\ operand' = component
    /\ UNCHANGED <<kind, parent_, children_, linked, nadds>>
    /\ UNCHANGED notCmp

(***************************************************************************)
(* Builder: operations.                                                    *)
(***************************************************************************)
\* A Reset that allocates a Product1 and leaves the builder with the object
\* allocated before it.
ResetKeeps(heap) ==
    [heap |-> Append(heap, NewProduct1),
     product |-> IF heap = <<>> THEN 1 ELSE Len(heap)]

\* ConcreteBuilder1::Reset on the heap given: the heap with a new Product1
\* and the address of that object.
Reset(heap) ==
    [heap |-> Append(heap, NewProduct1), product |-> Len(heap) + 1]

\* ClientCode: new ConcreteBuilder1(), whose constructor calls Reset.
BldInit ==
    /\ products = Reset(<<>>).heap
    /\ product = Reset(<<>>).product
    /\ builder = "live"
    /\ client_p = nullptr
    /\ since = <<>>
    /\ handed = <<>>
    /\ nproduced = 0

\* The production steps given, made one after the other on the builder's
\* product.
Produce(steps) ==
    /\ nproduced + Len(steps) <= MaxProduced
    /\ products' = [products EXCEPT ![product].parts_ = @ \o steps]
    /\ since' = since \o steps
    /\ nproduced' = nproduced + Len(steps)
    /\ UNCHANGED <<product, builder, client_p, handed>>
    /\ UNCHANGED notBld

\* ConcreteBuilder1::ProducePartA, and Director::BuildMinimalViableProduct,
\* which calls it.
ProducePartA ==
    /\ builder = "live"
    /\ Produce(<<"PartA1">>)

\* ConcreteBuilder1::ProducePartB
ProducePartB ==
    /\ builder = "live"
    /\ Produce(<<"PartB1">>)

\* ConcreteBuilder1::ProducePartC
ProducePartC ==
    /\ builder = "live"
    /\ Produce(<<"PartC1">>)

\* Director::BuildFullFeaturedProduct
BuildFullFeaturedProduct ==
    /\ builder = "live"
    /\ Produce(<<"PartA1", "PartB1", "PartC1">>)

\* p = builder->GetProduct()
GetProduct ==
    /\ builder = "live"
    /\ Len(handed) < MaxProducts
    /\ client_p' = product
    /\ products' = Reset(products).heap
    /\ product' = Reset(products).product
    /\ handed' = Append(handed, [product |-> product,
                                 parts_ |-> products[product].parts_])
    /\ since' = <<>>
    /\ UNCHANGED <<builder, nproduced>>
    /\ UNCHANGED notBld

\* delete p
DeleteProduct ==
    /\ client_p # nullptr
    /\ products[client_p].live
    /\ products' = [products EXCEPT ![client_p].live = FALSE]
    /\ UNCHANGED <<product, builder, client_p, since, handed, nproduced>>
    /\ UNCHANGED notBld

\* delete builder: the destructor deletes the product the builder holds.
DeleteBuilder ==
    /\ builder = "live"
    /\ builder' = "deleted"
    /\ products' = [products EXCEPT ![product].live = FALSE]
    /\ UNCHANGED <<product, client_p, since, handed, nproduced>>
    /\ UNCHANGED notBld

(***************************************************************************)
(* Mediator: operations.                                                   *)
(***************************************************************************)
\* ClientCode: new Component1, new Component2, new ConcreteMediator(c1, c2),
\* whose constructor calls SetMediator(this) on both components.
MedInit ==
    /\ mediator_ = [c \in {"c1", "c2"} |-> TheMediator]
    /\ calls = <<>>
    /\ chain = <<>>
    /\ triggers = <<>>

\* The component an operation is called on: DoA and DoB are members of
\* Component1, DoC and DoD of Component2.
ComponentOf(op) == IF op \in {"DoA", "DoB"} THEN "c1" ELSE "c2"

\* A call of a component operation: it is at its first statement.
CallOperation(op) == [fn |-> op, todo |-> <<>>, at |-> "print"]

\* The call that runs.
Running == calls[Len(calls)]

\* ClientCode calls an operation of a component.
ClientTriggers(op) ==
    /\ calls = <<>>
    /\ Len(triggers) < MaxTriggers
    /\ calls' = <<CallOperation(op)>>
    /\ chain' = <<>>
    /\ triggers' = Append(triggers, op)
    /\ UNCHANGED mediator_
    /\ UNCHANGED notMed

\* The body of a component operation: it prints what it does and calls
\* this->mediator_->Notify(this, event).
Does(op) ==
    /\ Running.fn = op
    /\ Running.at = "print"
    /\ mediator_[ComponentOf(op)] # nullptr
    /\ chain' = Append(chain, op)
    /\ calls' = Append([calls EXCEPT ![Len(calls)].at = "notified"],
                       [fn |-> "Notify", todo |-> Reactions(Event(op)),
                        at |-> "react"])
    /\ UNCHANGED <<mediator_, triggers>>
    /\ UNCHANGED notMed

\* Component1::DoA
DoA ==
    /\ calls # <<>>
    /\ Does("DoA")

\* Component1::DoB
DoB ==
    /\ calls # <<>>
    /\ Does("DoB")

\* Component2::DoC
DoC ==
    /\ calls # <<>>
    /\ Does("DoC")

\* Component2::DoD
DoD ==
    /\ calls # <<>>
    /\ Does("DoD")

\* ConcreteMediator::Notify: it calls the next operation of its reaction,
\* and returns when none is left.
MediatorNotify ==
    /\ calls # <<>>
    /\ Running.fn = "Notify"
    /\ IF Running.todo = <<>>
       THEN calls' = SubSeq(calls, 1, Len(calls) - 1)
       ELSE calls' = Append([calls EXCEPT ![Len(calls)].todo = Tail(@)],
                            CallOperation(Head(Running.todo)))
    /\ UNCHANGED <<mediator_, chain, triggers>>
    /\ UNCHANGED notMed

\* Notify has returned to the component operation that called it, which
\* returns in its turn.
OperationReturns ==
    /\ calls # <<>>
    /\ Running.fn \in ComponentOperations
    /\ Running.at = "notified"
    /\ calls' = SubSeq(calls, 1, Len(calls) - 1)
    /\ UNCHANGED <<mediator_, chain, triggers>>
    /\ UNCHANGED notMed

(***************************************************************************)
(* Specifications.                                                         *)
(***************************************************************************)
FlyNext ==
    \/ \E shared_state \in SharedStates : GetFlyweight(shared_state)
    \/ \E unique_state \in UniqueStates : Operation(unique_state)
    \/ ReleaseHandle
    \/ ListFlyweights
    \/ DeleteFactory

\* Flyweight's main() from the construction of the factory on.
FlyweightInit ==
    /\ FlyInit
    /\ ObsInit
    /\ cpc = AnyClient
    /\ SubInit
    /\ SglIdle
    /\ MemInit
    /\ StaInit
    /\ CmpInit
    /\ BldInit
    /\ MedInit

FlyweightSpec == FlyweightInit /\ [][FlyNext]_vars

\* The factory of Flyweight's main() before any car is added.
FlyIdle ==
    /\ seeded = <<>>
    /\ factory = TRUE
    /\ flyweights_ = EmptyMap
    /\ nShared = 0
    /\ fpc = "idle"
    /\ handle = NoHandle
    /\ displayed = NoOutput
    /\ listed = NoListing
    /\ log = <<>>

\* A step of a client other than ClientCode.
AnyClientNext ==
    /\ cpc = AnyClient
    /\ UNCHANGED cpc

\* The steps of a subject whose observers may call Attach and Detach from
\* their Update, and are not destroyed.
ObsNext ==
    \/ AnyClientNext /\ NewObserver
    \/ AnyClientNext /\ \E observer \in Observers : Attach(observer)
    \/ AnyClientNext /\ \E observer \in Observers : Detach(observer)
    \/ AnyClientNext /\ \E observer \in Observers :
                            RemoveMeFromTheList(observer)
    \/ AnyClientNext /\ Notify
    \/ AnyClientNext /\ \E message \in Messages : CreateMessage(message)
    \/ AnyClientNext /\ NotifyUpdate
    \/ AnyClientNext /\ \E observer \in Observers : UpdateAttaches(observer)
    \/ AnyClientNext /\ \E observer \in Observers : UpdateDetaches(observer)
    \/ AnyClientNext /\ NotifyAdvance
    \/ AnyClientNext /\ NotifyReturn

\* A subject that was just constructed.
ObserverInit ==
    /\ FlyIdle
    /\ ObsInit
    /\ cpc = AnyClient
    /\ SubInit
    /\ SglIdle
    /\ MemInit
    /\ StaInit
    /\ CmpInit
    /\ BldInit
    /\ MedInit

\* The steps of a subject whose observers are Observer objects, which are
\* constructed and destroyed by ClientCode or by another client.
ClientNext ==
    \/ AnyClientNext /\ NewObserver
    \/ AnyClientNext /\ \E observer \in Observers : Attach(observer)
    \/ AnyClientNext /\ \E observer \in Observers : Detach(observer)
    \/ AnyClientNext /\ \E observer \in Observers :
                            RemoveMeFromTheList(observer)
    \/ AnyClientNext /\ \E observer \in Observers : DeleteObserver(observer)
    \/ AnyClientNext /\ Notify
    \/ AnyClientNext /\ \E message \in Messages : CreateMessage(message)
    \/ ClientNew
    \/ ClientCreateMessage
    \/ ClientRemove
    \/ ClientDelete
    \/ ClientDeleteSubject
    \/ NotifyUpdate /\ UNCHANGED cpc
    \/ NotifyAdvance /\ UNCHANGED cpc
    \/ NotifyReturn /\ UNCHANGED cpc

\* A subject that was just constructed, by ClientCode or by another client.
ClientInit ==
    /\ FlyIdle
    /\ ObsInit
    /\ cpc \in { AnyClient, 1 }
    /\ SubInit
    /\ SglIdle
    /\ MemInit
    /\ StaInit
    /\ CmpInit
    /\ BldInit
    /\ MedInit

ClientSpec == ClientInit /\ [][ClientNext]_vars

\* The steps of two Subject objects and the observers constructed on them,
\* between passes.
SubjectsNext ==
    \/ AnyClientNext /\ NewObserver
    \/ AnyClientNext /\ \E observer \in Observers : Attach(observer)
    \/ AnyClientNext /\ \E observer \in Observers : Detach(observer)
    \/ AnyClientNext /\ \E observer \in Observers \ subject_other :
                            RemoveMeFromTheList(observer)
    \/ OtherObserverCtor
    \/ \E observer \in Observers : OtherAttach(observer)
    \/ \E observer \in Observers : OtherDetach(observer)
    \/ \E observer \in Observers : OtherRemoveMeFromTheList(observer)

\* Two subjects that were just constructed.
SubjectsInit ==
    /\ FlyIdle
    /\ ObsInit
    /\ cpc = AnyClient
    /\ SubInit
    /\ SglIdle
    /\ MemInit
    /\ StaInit
    /\ CmpInit
    /\ BldInit
    /\ MedInit

SubjectsSpec == SubjectsInit /\ [][SubjectsNext]_vars

\* The steps of the threads that call GetInstance.
SglNext ==
    \/ \E t \in Threads : LockGuard(t)
    \/ \E t \in Threads : TestInstance(t)
    \/ \E t \in Threads : NewSingleton(t)
    \/ \E t \in Threads : ReturnInstance(t)
    \/ \E t \in Threads : GetValue(t)

\* Singleton's main() once its threads are created.
SingletonInit ==
    /\ FlyIdle
    /\ ObsInit
    /\ cpc = AnyClient
    /\ SubInit
    /\ SglInit
    /\ MemInit
    /\ StaInit
    /\ CmpInit
    /\ BldInit
    /\ MedInit

SingletonSpec == SingletonInit /\ [][SglNext]_vars

\* The steps of one thread.
ThreadNext(t) ==
    \/ LockGuard(t)
    \/ TestInstance(t)
    \/ NewSingleton(t)
    \/ ReturnInstance(t)
    \/ GetValue(t)

\* The scheduler runs every thread that can take a step: a thread is not
\* left waiting for ever while it could run.  A thread that waits for
\* mutex_ can lock it once the threads before it have returned, since each
\* thread calls GetInstance once.
SingletonFairSpec ==
    /\ SingletonInit
    /\ [][SglNext]_vars
    /\ \A t \in Threads : WF_vars(ThreadNext(t))

\* The calls of a client of the caretaker and the originator, and the steps
\* of Undo.
MemNext ==
    \/ DoSomething
    \/ Backup
    \/ Undo
    \/ UndoTry

\* Memento's ClientCode() once the originator and the caretaker exist.
MementoInit ==
    /\ FlyIdle
    /\ ObsInit
    /\ cpc = AnyClient
    /\ SubInit
    /\ SglIdle
    /\ MemInit
    /\ StaInit
    /\ CmpInit
    /\ BldInit
    /\ MedInit

MementoSpec == MementoInit /\ [][MemNext]_vars

\* An Undo that was called runs on: the program has one thread, and nothing
\* but Undo's own next statement can follow.
MementoFairSpec ==
    /\ MementoInit
    /\ [][MemNext]_vars
    /\ WF_vars(UndoTry)

\* The calls of a client of the Context objects, and the steps of the calls.
StaNext ==
    \/ \E c \in Contexts, type \in StateTypes : NewContext(c, type)
    \/ \E c \in Contexts : Request1(c)
    \/ \E c \in Contexts : Request2(c)
    \/ Handle1
    \/ Handle2
    \/ TransitionTo
    \/ Return
    \/ \E c \in Contexts : DeleteContext(c)

\* State's ClientCode() before it constructs the Context.
StateInit ==
    /\ FlyIdle
    /\ ObsInit
    /\ cpc = AnyClient
    /\ SubInit
    /\ SglIdle
    /\ MemInit
    /\ StaInit
    /\ CmpInit
    /\ BldInit
    /\ MedInit

StateSpec == StateInit /\ [][StaNext]_vars

\* The calls main() and another client make on the components.
CmpNext ==
    \/ \E c \in Components, k \in ComponentKinds : NewComponent(c, k)
    \/ \E this, component \in Components : Add(this, component)
    \/ \E this, component \in Components : Remove(this, component)
    \/ \E component \in Components : CompositeClientCode(component)

\* Composite's main() before it constructs a component.
CompositeInit ==
    /\ FlyIdle
    /\ ObsInit
    /\ cpc = AnyClient
    /\ SubInit
    /\ SglIdle
    /\ MemInit
    /\ StaInit
    /\ CmpInit
    /\ BldInit
    /\ MedInit

CompositeSpec == CompositeInit /\ [][CmpNext]_vars

\* The calls ClientCode, the Director and another client make on the
\* builder.
BldNext ==
    \/ ProducePartA
    \/ ProducePartB
    \/ ProducePartC
    \/ BuildFullFeaturedProduct
    \/ GetProduct
    \/ DeleteProduct
    \/ DeleteBuilder

\* Builder's ClientCode() once the builder exists.
BuilderInit ==
    /\ FlyIdle
    /\ ObsInit
    /\ cpc = AnyClient
    /\ SubInit
    /\ SglIdle
    /\ MemInit
    /\ StaInit
    /\ CmpInit
    /\ BldInit
    /\ MedInit

BuilderSpec == BuilderInit /\ [][BldNext]_vars

\* The statements of the call that runs.
MedStep ==
    \/ DoA
    \/ DoB
    \/ DoC
    \/ DoD
    \/ MediatorNotify
    \/ OperationReturns

\* The calls ClientCode and another client make on the components, and the
\* statements of the calls.
MedNext ==
    \/ \E op \in ComponentOperations : ClientTriggers(op)
    \/ MedStep

\* Mediator's ClientCode() once the components and the mediator exist.
MediatorInit ==
    /\ FlyIdle
    /\ ObsInit
    /\ cpc = AnyClient
    /\ SubInit
    /\ SglIdle
    /\ MemInit
    /\ StaInit
    /\ CmpInit
    /\ BldInit
    /\ MedInit

MediatorSpec == MediatorInit /\ [][MedNext]_vars

\* A call that was made runs on: the program has one thread, and nothing
\* but the next statement of the call that runs can follow.
MediatorFairSpec ==
    /\ MediatorInit
    /\ [][MedNext]_vars
    /\ WF_vars(MedStep)

ObserverSpec == ObserverInit /\ [][ObsNext]_vars

(***************************************************************************)
(* Flyweight: properties.                                                  *)
(***************************************************************************)
\* The keys stored before the i-th GetFlyweight call: those the constructor
\* was given and those requested by the calls before it.
KeysBefore(i) == KeysOf(seeded) \cup { log[j].key : j \in 1 .. i - 1 }

\* C1: interning identity.  Two GetFlyweight calls with field-equal
\* SharedState arguments return flyweights with field-equal shared state, and
\* the second of them leaves the number of stored flyweights as it was.
C1_InterningIdentity ==
    \A i, j \in DOMAIN log :
        (i < j /\ log[i].arg = log[j].arg)
            => /\ log[i].ret = log[j].ret
               /\ log[j].count1 = log[j].count0

\* C1 witness: a state was requested, then another one, then the first again.
C1_Witness ==
    \E i, j, k \in DOMAIN log :
        /\ i < j /\ j < k
        /\ log[i].arg = log[k].arg
        /\ log[j].arg # log[i].arg
        /\ log[i].report = "created"
        /\ log[j].report = "created"

\* C2: interning distinctness.  Two GetFlyweight calls whose SharedState
\* arguments differ in a field use different keys, and each returns a
\* flyweight whose shared state is the state that was requested.
C2_InterningDistinctness ==
    \A i, j \in DOMAIN log :
        log[i].arg # log[j].arg
            => /\ log[i].key # log[j].key
               /\ log[i].ret = log[i].arg
               /\ log[j].ret = log[j].arg

\* C3: while the factory exists the number of stored flyweights is the number
\* of distinct keys seeded or requested so far; every call raises it by one
\* on a miss and by nothing on a hit, and it never decreases.
C3_CountIsDistinctKeys ==
    /\ factory => Count = Cardinality(KeysBefore(Len(log) + 1))
    /\ \A i \in DOMAIN log :
        /\ log[i].count0 = Cardinality(KeysBefore(i))
        /\ log[i].count1 =
               log[i].count0 + (IF log[i].key \in KeysBefore(i) THEN 0 ELSE 1)
        /\ i > 1 => log[i].count0 >= log[i - 1].count1
        /\ factory => Count >= log[i].count1

\* C3 witness: the initializer list named one key twice, and the calls made
\* since include a hit and a miss.
C3_Witness ==
    /\ factory
    /\ Len(seeded) = 2
    /\ GetKey(seeded[1]) = GetKey(seeded[2])
    /\ \E i, j \in DOMAIN log :
        /\ log[i].count1 = log[i].count0 + 1
        /\ log[j].count1 = log[j].count0
    /\ Count = 2

M5Red == SS("BMW", "M5", "red")
X1Red == SS("BMW", "X1", "red")

\* C4: GetFlyweight reports "created" exactly when its key was neither seeded
\* nor requested before, and "reused" otherwise.  On a registry that holds
\* neither state, requesting {BMW,M5,red} twice and then {BMW,X1,red} reports
\* created, reused, created, with one entry more after the first two calls
\* and two more after the third (1 and 2 on an empty registry).
C4_CreatedIffAbsent ==
    /\ \A i \in DOMAIN log :
        /\ log[i].report \in { "created", "reused" }
        /\ log[i].report = "created" <=> log[i].key \notin KeysBefore(i)
    /\ ( /\ Len(log) = 3
         /\ log[1].arg = M5Red /\ log[2].arg = M5Red /\ log[3].arg = X1Red
         /\ { GetKey(M5Red), GetKey(X1Red) } \cap KeysOf(seeded) = {} )
       => /\ <<log[1].report, log[2].report, log[3].report>> =
                 <<"created", "reused", "created">>
          /\ log[1].count1 = Cardinality(KeysOf(seeded)) + 1
          /\ log[2].count1 = Cardinality(KeysOf(seeded)) + 1
          /\ log[3].count1 = Cardinality(KeysOf(seeded)) + 2

\* C4 witness: the three calls of the scenario, made on an empty registry.
C4_Witness ==
    /\ seeded = <<>>
    /\ Len(log) = 3
    /\ log[1].arg = M5Red /\ log[2].arg = M5Red /\ log[3].arg = X1Red
    /\ log[2].count1 = 1
    /\ Count = 2

\* C5: no step that leaves the factory in existence removes a stored
\* flyweight or changes its shared state; Operation leaves the whole map as
\* it was; the number of entries drops only when the factory is destroyed.
C5_EntriesImmutable ==
    [][ /\ factory' =>
            \A k \in DOMAIN flyweights_ :
                /\ k \in DOMAIN flyweights_'
                /\ flyweights_'[k] = flyweights_[k]
        /\ (fpc = "held" /\ fpc' = "operated") => flyweights_' = flyweights_
        /\ Cardinality(DOMAIN flyweights_') < Count => (factory /\ ~factory')
      ]_vars

\* C5 witness: an entry was stored, a later request with another state was
\* answered from that entry, Operation ran on the result, and the entry still
\* holds the state it was stored with.
C5_Witness ==
    /\ factory
    /\ fpc = "operated"
    /\ displayed # NoOutput
    /\ \E i, j \in DOMAIN log :
        /\ i < j
        /\ log[i].report = "created"
        /\ log[j].key = log[i].key
        /\ log[j].arg # log[i].arg
        /\ flyweights_[log[i].key] = Flyweight(log[i].arg)

\* C6: a GetFlyweight call that finds an entry for its key allocates no
\* SharedState object: as many are alive when the caller holds the result as
\* were alive before the call.
C6_ReuseAllocatesNothing ==
    \A i \in DOMAIN log :
        log[i].report = "reused" => log[i].live1 = log[i].live0

(***************************************************************************)
(* Observer: properties.                                                   *)
(***************************************************************************)
\* A Notify pass the client started has returned and no other call has been
\* made since.
PassReturned == opc = "idle" /\ last.op \in { "Notify", "CreateMessage" }

\* The client's last call was a Detach, made directly or through
\* RemoveMeFromTheList.
Detached == last.op \in { "Detach", "RemoveMeFromTheList" }

\* The number of entries of list that hold value.
Occurrences(list, value) == Cardinality(Positions(list, value))

\* The entries of list other than those of the observers in gone.
Without(list, gone) == SelectSeq(list, LAMBDA o : o \notin gone)

\* C7 as stated: after a pass during which no Update attached or detached
\* anything, Update has run exactly once on each attached observer and on no
\* other, in attachment order, and each holds the subject's message.
C7_NotifyOncePerObserver ==
    (PassReturned /\ passOps = <<>>)
        => /\ \A o \in Constructed :
                  Occurrences(updates, o) =
                      (IF Occurrences(attached, o) > 0 THEN 1 ELSE 0)
           /\ \A i, j \in DOMAIN updates :
                  i < j => \E p, q \in DOMAIN attached :
                               /\ p < q
                               /\ attached[p] = updates[i]
                               /\ attached[q] = updates[j]
           /\ \A i \in DOMAIN attached :
                  message_from_subject_[attached[i]] = message_

\* C7 as amended: after such a pass Update has run once for every entry of
\* the subscriber sequence (twice on an observer attached twice) and on no
\* other observer, in the order of attachment, and each holds the subject's
\* message.
C7_NotifyOncePerEntry ==
    (PassReturned /\ passOps = <<>>)
        => /\ updates = attached
           /\ \A i \in DOMAIN attached :
                  message_from_subject_[attached[i]] = message_

\* C7 witness: observer 1 was detached and attached again behind observer 2,
\* and a pass has delivered "Next" to 2 and then to 1.
C7_Witness ==
    /\ PassReturned
    /\ passOps = <<>>
    /\ updates = <<2, 1>>
    /\ message_ = "Next"
    /\ message_from_subject_ = <<"Next", "Next">>

\* C8: the observers a pass has invoked are those of the subscriber sequence
\* as it was when the pass began, in that order, whatever the Update
\* callbacks attached or detached meanwhile.  (Stated for the passes whose
\* behaviour is defined.)
C8_PassUsesSnapshot == (PassReturned /\ ~ub) => updates = before

\* C9: no pass dereferences a removed list node or crashes; a pass during
\* which Update callbacks detached observers has invoked every other entry
\* once, in order, and leaves exactly those entries in the sequence.
C9_DetachDuringNotifySafe ==
    /\ ~ub
    /\ opc # "crashed"
    /\ (PassReturned /\ \A i \in DOMAIN passOps : passOps[i].op = "Detach")
        => LET gone == { passOps[i].obs : i \in DOMAIN passOps }
           IN  /\ Without(updates, gone) = Without(before, gone)
               /\ list_observer_ = Without(before, gone)

\* C10 as stated: Detach(o) removes the first entry that holds o and leaves
\* every other entry, a later entry of o included, in place and in order.
C10_DetachRemovesFirst ==
    Detached => list_observer_ = ListRemoveFirst(before, last.obs)

\* C10 as amended: Detach(o) removes every entry that holds o, a second entry
\* made by attaching o twice included, and leaves the entries of the other
\* observers in place and in order.
C10_DetachRemovesAll ==
    Detached
        => /\ Occurrences(list_observer_, last.obs) = 0
           /\ list_observer_ = Without(before, { last.obs })

\* C10 witness: an observer attached twice, with another one between its two
\* entries, has been detached.
C10_Witness ==
    /\ last.op = "Detach"
    /\ Occurrences(before, last.obs) = 2
    /\ Len(before) = 3
    /\ before[2] # last.obs
    /\ Len(list_observer_) = 1

(***************************************************************************)
(* Observer: properties of the subscriber list and of a pass whose         *)
(* observers are Observer objects.                                         *)
(***************************************************************************)
\* C11: Attach(o) appends o at the end without looking for a duplicate: the
\* list grows by exactly one entry on every call.  An observer that was
\* attached twice holds two entries, and a pass runs Update on it twice:
\* once for each of its entries.
C11_AttachAppends ==
    /\ last.op = "Attach"
        => /\ list_observer_ = before \o <<last.obs>>
           /\ Len(list_observer_) = Len(before) + 1
    /\ PassReturned
        => \A o \in Constructed :
               Occurrences(updates, o) = Occurrences(before, o)

\* C11 witness: a pass has returned over a list that held one observer twice
\* and another one once.
C11_Witness ==
    /\ PassReturned
    /\ \E o, p \in Constructed :
           /\ Occurrences(before, o) = 2
           /\ Occurrences(updates, o) = 2
           /\ Occurrences(updates, p) = 1

\* C12: Detach of an observer that is not in the list is a no-op: the list
\* and its size are as before.  So is the second of two Detach calls, or of
\* two RemoveMeFromTheList calls, for the same observer.
C12_DetachAbsentNoOp ==
    (Detached /\ Occurrences(before, last.obs) = 0)
        => /\ list_observer_ = before
           /\ Len(list_observer_) = Len(before)

\* C12 witness: an observer that had been detached before has called
\* RemoveMeFromTheList again while another observer was attached.
C12_Witness ==
    /\ last.op = "RemoveMeFromTheList"
    /\ last.obs \in Constructed
    /\ Occurrences(before, last.obs) = 0
    /\ before # <<>>

\* The k-th Observer constructed holds the number k.
NumberedInOrder == \A k \in Constructed : number_[k] = k

\* Every Observer constructed so far keeps the number it holds.
NumbersKept ==
    \A k \in Constructed : k \in DOMAIN number_' /\ number_'[k] = number_[k]

\* C13: the k-th Observer constructed is given the number k, the first one 1,
\* whatever Attach, Detach and destructor calls come between the
\* constructions: the numbers increase with the order of construction, no
\* two observers hold the same number, the number of a destroyed observer is
\* not given again, and no step changes the number an observer holds.
C13_ObserverNumbering ==
    [][/\ NumbersKept
       /\ NumberedInOrder'
       /\ \A j, k \in DOMAIN number_' : j < k => number_'[j] < number_'[k]
       /\ static_number_' = Len(number_')]_vars

\* C13 witness: an Observer was constructed after another one had been
\* detached and destroyed.
C13_Witness ==
    /\ last.op = "Observer"
    /\ last.obs = 2
    /\ number_ = <<1, 2>>
    /\ deleted = { 1 }
    /\ list_observer_ = <<2>>

\* ClientCode has executed its first n statements and is in no call.
ClientAfter(n) == cpc = n + 1 /\ opc = "idle"

\* C14: the run of ClientCode's first six statements.  With three observers
\* constructed on the subject the list holds 3 entries.  The first
\* CreateMessage delivers its message to observers 1, 2 and 3, in that
\* order.  Once observer 3 has detached itself, the second CreateMessage
\* delivers its message to observers 1 and 2 only, in that order, the list
\* holds 2 entries, and observer 3 still holds the first message.
C14_ScenarioB ==
    [][/\ ClientAfter(3)' => list_observer_' = <<1, 2, 3>>
       /\ ClientAfter(4)'
            => /\ announced' = <<3>>
               /\ updates' = <<1, 2, 3>>
               /\ \A o \in { 1, 2, 3 } : message_from_subject_'[o] = message_'
       /\ ((ClientAfter(4) \/ cpc \in { 6, 7 }) /\ cpc' \in { 5, 6, 7 })
            => message_from_subject_'[3] = message_from_subject_[3]
       /\ ClientAfter(6)'
            => /\ announced' = <<2>>
               /\ updates' = <<1, 2>>
               /\ list_observer_' = <<1, 2>>
               /\ \A o \in { 1, 2 } : message_from_subject_'[o] = message_'
      ]_vars

\* C14 witness: ClientCode has sent "Hello", observer 3 has detached itself,
\* and ClientCode has sent "Next".
C14_Witness ==
    /\ ClientAfter(6)
    /\ message_ = "Next"
    /\ message_from_subject_ = <<"Next", "Next", "Hello">>
    /\ list_observer_ = <<1, 2>>

\* The observer holds an entry of list.
In(list, o) == Occurrences(list, o) > 0

\* C15: CreateMessage(m) stores m as the subject's message before the pass
\* starts and announces the number of subscribers before any Update of the
\* pass.  While the call runs the stored message stays m and the message of
\* an observer that is not attached does not change.  When the call returns,
\* the last message of every attached observer is m.
C15_CreateMessageDelivers ==
    [][/\ (opc = "idle" /\ opc' # "idle" /\ last'.op = "CreateMessage")
            => /\ message_' = last'.message
               /\ announced' = <<Len(list_observer_)>>
               /\ updates' = <<>>
               /\ message_from_subject_' = message_from_subject_
       /\ (opc # "idle" /\ last.op = "CreateMessage")
            => /\ message_' = last.message
               /\ announced' = announced
               /\ \A o \in Constructed :
                      ~In(list_observer_, o)
                          => message_from_subject_'[o] = message_from_subject_[o]
       /\ (opc # "idle" /\ opc' = "idle" /\ last.op = "CreateMessage")
            => \A o \in Constructed :
                   In(list_observer_', o)
                       => message_from_subject_'[o] = last.message
      ]_vars

\* C15 witness: a CreateMessage has returned while one observer was attached
\* and another one, which holds an earlier message, was not.
C15_Witness ==
    /\ PassReturned
    /\ last.op = "CreateMessage"
    /\ announced = <<1>>
    /\ \E o, p \in Constructed :
           /\ In(list_observer_, o)
           /\ message_from_subject_[o] = last.message
           /\ ~In(list_observer_, p)
           /\ message_from_subject_[p] \notin { "", last.message }

\* The step begins a Notify() the client calls on a subject without
\* subscribers, or is a later step of that call.
NotifyOnEmptyStep ==
    \/ /\ opc = "idle" /\ opc' # "idle"
       /\ last'.op = "Notify"
       /\ list_observer_ = <<>>
    \/ /\ opc # "idle"
       /\ last.op = "Notify"
       /\ before = <<>>

\* What Notify() on a subject without subscribers leaves alone: it runs no
\* Update and changes nothing the subject or an observer holds.
NotifyOnEmptyKeeps ==
    /\ updates' = <<>>
    /\ UNCHANGED <<list_observer_, message_, message_from_subject_, number_,
                   static_number_, deleted>>

\* C16 as stated: Notify on a subject with no attached observer is a silent
\* no-op: it runs no Update, changes no state of the subject or of an
\* observer, and prints nothing.
C16_NotifyOnEmptySilent ==
    [][NotifyOnEmptyStep => (NotifyOnEmptyKeeps /\ announced' = <<>>)]_vars

\* C16 as amended: Notify on a subject with no attached observer runs no
\* Update and changes no state of the subject or of an observer; it prints
\* one line, HowManyObservers' count of 0 subscribers.
C16_NotifyOnEmptyAnnouncesZero ==
    [][NotifyOnEmptyStep => (NotifyOnEmptyKeeps /\ announced' = <<0>>)]_vars

\* C16 witness: Notify() has returned on a subject whose two observers had
\* both detached themselves.
C16_Witness ==
    /\ PassReturned
    /\ last.op = "Notify"
    /\ before = <<>>
    /\ list_observer_ = <<>>
    /\ Cardinality(Constructed) = 2
    /\ announced = <<0>>

\* C18: an observer that has detached itself with RemoveMeFromTheList, and
\* was not attached again since, is passed over by every later Notify and
\* CreateMessage: no step runs Update on it, and the message it received
\* last does not change.
C18_DetachedHearsNothing ==
    [][\A o \in Constructed :
           ~In(attached, o)
               => /\ message_from_subject_'[o] = message_from_subject_[o]
                  /\ Occurrences(updates', o) <= Occurrences(updates, o)]_vars

\* C18 witness: ClientCode's third CreateMessage has returned.  Observers 2
\* and 3 had removed themselves earlier, and each still holds the message
\* that was current when it left.
C18_Witness ==
    /\ ClientAfter(10)
    /\ updates = <<1, 4, 5>>
    /\ message_from_subject_ =
           << "My new car is great! ;)", "The weather is hot today! :P",
              "Hello World! :D", "My new car is great! ;)",
              "My new car is great! ;)" >>

\* C19: the destructor of an Observer does not detach it: the list is the
\* same after the destructor as before it.  An observer destroyed while it is
\* attached keeps its entry, and a later pass over that entry runs Update on
\* the destroyed object.  In ClientCode every observer has removed itself
\* before it is deleted: no destroyed observer is in the list and no pass
\* reaches one.
C19_DestructorKeepsEntry ==
    /\ last.op = "~Observer" => list_observer_ = before
    /\ (PassReturned /\ \E o \in deleted : In(before, o)) => uaf
    /\ cpc # AnyClient
        => /\ ~uaf
           /\ \A o \in deleted : ~In(list_observer_, o)

\* C19 witness: an observer was destroyed while attached, and a later pass
\* has run Update on it and returned.
C19_Witness ==
    /\ PassReturned
    /\ uaf
    /\ \E o \in deleted :
           /\ In(list_observer_, o)
           /\ In(updates, o)
           /\ message_from_subject_[o] = message_
           /\ message_ # ""

(***************************************************************************)
(* Observer: properties of two subjects.                                   *)
(***************************************************************************)
\* C17: constructing an Observer on a Subject attaches it to that Subject
\* at once: the new observer is the last entry of that subject's list,
\* which has grown by one entry, and the list of the other subject is as it
\* was.
C17_ConstructorAttaches ==
    [][Len(number_') > Len(number_)
        => LET this == Len(number_')
           IN  IF this \in subject_other'
               THEN /\ list_observer_other' = list_observer_other \o <<this>>
                    /\ Len(list_observer_other') =
                           Len(list_observer_other) + 1
                    /\ list_observer_' = list_observer_
               ELSE /\ list_observer_' = list_observer_ \o <<this>>
                    /\ Len(list_observer_') = Len(list_observer_) + 1
                    /\ list_observer_other' = list_observer_other
      ]_vars

\* C17 witness: observer 1 was constructed on the first subject and attached
\* to the second one as well; then observer 2 was constructed on the second
\* subject.
C17_Witness ==
    /\ number_ = <<1, 2>>
    /\ subject_other = { 2 }
    /\ list_observer_ = <<1>>
    /\ list_observer_other = <<1, 2>>

(***************************************************************************)
(* Singleton: properties.                                                  *)
(***************************************************************************)
\* The thread has received the pointer GetInstance returned.
Returned(t) == tpc[t] \in { "GetValue", "done" }

\* C20: Singleton uniqueness.  However the GetInstance calls of the threads
\* interleave, the constructor runs at most once, pinstance_ is written at
\* most once, from nullptr to the object constructed, and every call returns
\* that one pointer.
C20_SingletonUnique ==
    [][/\ Len(objects') <= 1
       /\ pinstance_' # pinstance_
            => /\ pinstance_ = nullptr
               /\ pinstance_' = Len(objects')
               /\ Len(objects') = Len(objects) + 1
       /\ \A t \in Threads :
              Returned(t)' => /\ ret'[t] # nullptr
                              /\ ret'[t] = pinstance_'
       /\ \A t, u \in Threads :
              (Returned(t)' /\ Returned(u)') => ret'[t] = ret'[u]
      ]_vars

\* C20 witness: every thread has returned from GetInstance and printed; the
\* object was constructed by a thread other than thread 1, with a value that
\* thread 1 did not pass.
C20_Witness ==
    /\ \A t \in Threads : tpc[t] = "done" /\ ret[t] = 1
    /\ arg[1] = "FOO"
    /\ objects = <<"BAR">>
    /\ \A t \in Threads : printed[t] = "BAR"

\* The thread has printed the value of the singleton.
Printed(t) == tpc[t] = "done"

\* C21: the value of the singleton is the argument of the GetInstance call
\* that locks the mutex first, and the argument of every other call is
\* ignored: the threads all print that one value, FOO FOO or BAR BAR for the
\* threads of ThreadFoo and ThreadBar, never one of each.  Every GetInstance
\* call returns in the end, and the mutex is left unlocked.
C21_FirstLockerWins ==
    /\ [](\A t \in Threads :
              Printed(t) => /\ printed[t] = arg[locked_first]
                            /\ \A u \in Threads :
                                   Printed(u) => printed[u] = printed[t])
    /\ [](objects # <<>> => objects = <<arg[locked_first]>>)
    /\ <>[](/\ \A t \in Threads : Returned(t)
            /\ mutex_ = Unlocked)

\* C21 witness: thread 1 passed FOO and thread 2 passed BAR; thread 2 locked
\* the mutex first, and both have printed BAR.
C21_Witness ==
    /\ arg[1] = "FOO" /\ arg[2] = "BAR"
    /\ locked_first = 2
    /\ Printed(1) /\ Printed(2)
    /\ printed[1] = "BAR" /\ printed[2] = "BAR"
    /\ mutex_ = Unlocked

\* The other outcome of the same two threads: thread 1 locked the mutex
\* first, and both have printed FOO.
C21_OutcomeFooFoo ==
    /\ arg[1] = "FOO" /\ arg[2] = "BAR"
    /\ locked_first = 1
    /\ Printed(1) /\ Printed(2)
    /\ printed[1] = "FOO" /\ printed[2] = "FOO"
    /\ mutex_ = Unlocked

\* The thread is inside GetInstance, past the lock_guard.
InGetInstance(t) == tpc[t] \in { "test", "new", "return" }

\* C22 as stated: GetInstance locks the mutex only while the instance has
\* not been created; a call made after the instance exists goes through
\* GetInstance without locking the mutex.
C22_DoubleCheckedLocking ==
    [][\A t \in Threads :
           (tpc[t] = "GetInstance" /\ tpc'[t] # "GetInstance")
               => (pinstance_ # nullptr => mutex_' # t)]_vars

\* C22 as amended: GetInstance locks the mutex first, on every call, whether
\* the instance exists or not; it tests the pointer once, under the lock,
\* and holds the lock until it returns.
C22_LocksOnEveryCall ==
    [][\A t \in Threads :
           /\ (tpc[t] = "GetInstance" /\ tpc'[t] # "GetInstance")
                => /\ mutex_' = t
                   /\ tpc'[t] = "test"
                   /\ pinstance_' = pinstance_
           /\ InGetInstance(t)' => mutex_' = t
           /\ (tpc[t] = "test" /\ tpc'[t] # "test")
                => tpc'[t] = IF pinstance_ = nullptr THEN "new" ELSE "return"
      ]_vars

\* C22 witness: a thread that called GetInstance after the instance was
\* created holds the mutex and is about to test the pointer.
C22_Witness ==
    \E t \in Threads :
        /\ tpc[t] = "test"
        /\ mutex_ = t
        /\ pinstance_ # nullptr
        /\ locked_first # t

(***************************************************************************)
(* Memento: properties.                                                    *)
(***************************************************************************)
\* Every Undo that found a memento was made after the last Backup and the
\* last DoSomething: the calls were n Backups, with DoSomething calls among
\* them, and then Undo calls only.
UndosFollowBackups == undone = Len(undos)

\* C23: undo is last in, first out.  After n Backups, with any DoSomething
\* calls in between, the i-th of k <= n consecutive Undo calls sets the
\* state of the originator to the state the (n + 1 - i)-th Backup saved; the
\* n-th Undo leaves the originator with the state the first Backup saved.
C23_UndoIsLifo ==
    (UndosFollowBackups /\ mpc = "idle")
        => LET n == Len(backups)
               k == Len(undos)
           IN  /\ k <= n
               /\ \A i \in 1 .. k : undos[i] = backups[n + 1 - i]
               /\ (mlast = "Undo" /\ k > 0) => originator_state_ = undos[k]
               /\ (mlast = "Undo" /\ k = n /\ n > 0)
                      => originator_state_ = backups[1]

\* C23 witness: three Backups saved three different states, the originator
\* changed its state once more, and three Undo calls have run since.
C23_Witness ==
    /\ Len(backups) = 3
    /\ backups[1] = InitialState
    /\ backups[2] # backups[1]
    /\ backups[3] \notin { backups[1], backups[2] }
    /\ undos = <<backups[3], backups[2], backups[1]>>
    /\ undone = 3
    /\ mlast = "Undo"
    /\ mpc = "idle"
    /\ originator_state_ = InitialState

\* The step is an Undo call that finds the history empty.
UndoOnEmpty ==
    /\ mpc = "idle"
    /\ mementos_ = <<>>
    /\ mlast # "Undo"
    /\ mlast' = "Undo"

\* C24: Undo with an empty history returns without changing the state of
\* the originator or the history.  With a history that is not empty an Undo
\* removes exactly one memento, and a Backup appends exactly one: the length
\* of the history is the number of Backups less the number of Undo calls
\* that found a memento, and never negative.  Every Undo returns.
C24_UndoAccounting ==
    /\ [][/\ UndoOnEmpty
               => /\ mpc' = "idle"
                  /\ UNCHANGED <<originator_state_, mementos_, undone>>
          /\ (mlast' = "Undo" /\ mpc = "idle" /\ mementos_ # <<>>)
               => /\ mementos_' = SubSeq(mementos_, 1, Len(mementos_) - 1)
                  /\ undone' = undone + 1
          /\ mpc = "try" => mementos_' = mementos_
          /\ mlast' = "Backup"
               => /\ Len(mementos_') = Len(mementos_) + 1
                  /\ SubSeq(mementos_', 1, Len(mementos_)) = mementos_
         ]_vars
    /\ [](Len(mementos_) = Len(backups) - undone)
    /\ [](undone <= Len(backups))
    /\ [](mpc = "try" => <>(mpc = "idle"))

\* C24 witness: after two Backups and two Undos a third Undo found the
\* history empty and has returned.
C24_Witness ==
    /\ Len(backups) = 2
    /\ undone = 2
    /\ mementos_ = <<>>
    /\ mlast = "Undo"
    /\ mpc = "idle"
    /\ undos = <<backups[2], backups[1]>>

(***************************************************************************)
(* State: properties.                                                      *)
(***************************************************************************)
\* The dynamic type of the State object a Context points to.
TypeOf(c) == states[state_[c]].type

\* The Context c is between calls.
Settled(c) == spc = "idle" \/ request.ctx # c

\* C25: in ConcreteStateA, Request1 takes the Context to ConcreteStateB and
\* Request2 keeps ConcreteStateA; in ConcreteStateB, Request2 takes it to
\* ConcreteStateA and Request1 keeps ConcreteStateB; a Context constructed
\* in ConcreteStateA that is sent Request1 and then Request2 goes through
\* ConcreteStateA, ConcreteStateB, ConcreteStateA; no request makes more
\* than one transition.
C25_StateMachine ==
    /\ request.transitions <= 1
    /\ (spc = "idle" /\ request.op \in {"Request1", "Request2"})
           => LET from == request.from
                  op == request.op
                  to == TypeOf(request.ctx)
                  n == request.transitions
              IN  /\ (from = "ConcreteStateA" /\ op = "Request1")
                         => (to = "ConcreteStateB" /\ n = 1)
                  /\ (from = "ConcreteStateA" /\ op = "Request2")
                         => (to = "ConcreteStateA" /\ n = 0)
                  /\ (from = "ConcreteStateB" /\ op = "Request2")
                         => (to = "ConcreteStateA" /\ n = 1)
                  /\ (from = "ConcreteStateB" /\ op = "Request1")
                         => (to = "ConcreteStateB" /\ n = 0)
    /\ \A c \in Contexts :
           ( /\ requests[c] = <<"Request1", "Request2">>
             /\ trace[c][1] = "ConcreteStateA"
             /\ Settled(c) )
               => trace[c] = <<"ConcreteStateA", "ConcreteStateB",
                               "ConcreteStateA">>

\* ClientCode's run: a Context constructed in ConcreteStateA was sent
\* Request1 and then Request2.
C25_Witness ==
    /\ spc = "idle"
    /\ request.ctx = 1
    /\ request.op = "Request2"
    /\ request.from = "ConcreteStateB"
    /\ requests[1] = <<"Request1", "Request2">>
    /\ trace[1] = <<"ConcreteStateA", "ConcreteStateB", "ConcreteStateA">>
    /\ TypeOf(1) = "ConcreteStateA"

\* The State objects that are alive and refer back to the Context c.
LiveStatesOf(c) ==
    { s \in 1 .. Len(states) : states[s].live /\ states[s].context_ = c }

\* C26: between calls a Context holds one live State object, its state_ is
\* not null and that object's context_ is the Context; TransitionTo deletes
\* the state it replaces exactly once; no member of a State object is read
\* or written after the object was deleted, although the handler that
\* calls TransitionTo belongs to the object TransitionTo deletes.
C26_OneLiveState ==
    /\ [](~uad)
    /\ [](\A s \in 1 .. Len(states) :
              /\ states[s].deletes <= 1
              /\ states[s].live <=> states[s].deletes = 0)
    /\ [](\A c \in Contexts :
              (spc = "idle" /\ context_status[c] = "live")
                  => /\ state_[c] # nullptr
                     /\ states[state_[c]].live
                     /\ states[state_[c]].context_ = c
                     /\ LiveStatesOf(c) = {state_[c]})
    /\ [][(spc = "TransitionTo" /\ state_[sctx] # nullptr)
              => /\ states[state_[sctx]].live
                 /\ ~states'[state_[sctx]].live
                 /\ states'[state_[sctx]].deletes = 1
                 /\ \A s \in 1 .. Len(states) :
                        s # state_[sctx] => states'[s].live = states[s].live
         ]_vars

\* TransitionTo has returned to a handler of the object it deleted.
C26_Witness ==
    /\ spc = "Return"
    /\ sthis # nullptr
    /\ ~states[sthis].live
    /\ states[sthis].deletes = 1
    /\ states[sthis].context_ = sctx
    /\ state_[sctx] = sarg
    /\ states[sarg].live
    /\ ~uad

(***************************************************************************)
(* Composite: properties.                                                  *)
(***************************************************************************)
\* The Composite parent holds the Component c in its child list.
ChildOf(c, parent) == kind[parent] = "Composite" /\ In(children_[parent], c)

\* C27: a Component that was handed to Add or Remove of a Composite has the
\* parent pointer P exactly when it is in the child list of P, and a null
\* parent pointer when it is in no child list.
C27_ParentChildConsistent ==
    \A c \in linked :
        /\ \A parent \in Components :
               kind[parent] = "Composite"
                   => (parent_[c] = parent <=> ChildOf(c, parent))
        /\ (\A parent \in Components : ~ChildOf(c, parent))
               => parent_[c] = nullptr

\* The string with " + " between every two adjacent children, and the part
\* of it that starts at the i-th child.
RECURSIVE Expected(_)
RECURSIVE ExpectedFrom(_, _)
Expected(this) ==
    IF kind[this] = "Leaf"
    THEN "Leaf"
    ELSE "Branch ( " \o ExpectedFrom(this, 1) \o " )"

ExpectedFrom(this, i) ==
    IF i > Len(children_[this])
    THEN ""
    ELSE Expected(children_[this][i])
             \o (IF i < Len(children_[this]) THEN " + " ELSE "")
             \o ExpectedFrom(this, i + 1)

\* C28: Operation of a Composite returns "Branch ( ", the results of the
\* children in the order of the child list with " + " between every two
\* adjacent children and none after the last, and " )", also when a
\* Component occurs in the child list more than once.
C28_OperationJoinsChildren ==
    (operand # NoComponent /\ result # NoResult)
        => result = Expected(operand)

(***************************************************************************)
(* Builder: properties.                                                    *)
(***************************************************************************)
\* The step is a call of GetProduct.
GetProductStep == Len(handed') = Len(handed) + 1

\* C29: GetProduct returns the product that holds the parts produced since
\* the builder was constructed or GetProduct was called last, in the order
\* of the calls, and leaves the builder with a new product without parts;
\* no production step made later changes a product that was returned.
C29_GetProductHandsOver ==
    /\ [][GetProductStep
              => /\ client_p' = product
                 /\ products'[client_p'].parts_ = since
                 /\ products'[client_p'].live
                 /\ product' # client_p'
                 /\ product' \notin DOMAIN products
                 /\ products'[product'].parts_ = <<>>
                 /\ products'[product'].live
         ]_vars
    /\ [](\A i \in DOMAIN handed :
              products[handed[i].product].parts_ = handed[i].parts_)
    /\ [](\A i, j \in DOMAIN handed :
              i # j => handed[i].product # handed[j].product)
    /\ [](builder = "live"
              => \A i \in DOMAIN handed : handed[i].product # product)

\* ClientCode's first two products, PartA1 and PartA1, PartB1, PartC1, were
\* returned and the builder's product is empty.
C29_Witness ==
    /\ Len(handed) = 2
    /\ handed[1].parts_ = <<"PartA1">>
    /\ handed[2].parts_ = <<"PartA1", "PartB1", "PartC1">>
    /\ client_p = handed[2].product
    /\ products[handed[1].product].parts_ = <<"PartA1">>
    /\ products[client_p].parts_ = <<"PartA1", "PartB1", "PartC1">>
    /\ products[product].parts_ = <<>>
    /\ builder = "live"

(***************************************************************************)
(* Mediator: properties.                                                   *)
(***************************************************************************)
\* The operation the client called last.
Triggered == triggers[Len(triggers)]

\* C30: an operation the client calls on a component of the
\* ConcreteMediator returns after a finite chain of reactions: DoA is
\* followed by DoC and nothing else, DoD by DoB and then DoC, DoB and DoC by
\* nothing; no operation is executed twice in one chain.
C30_ReactionsTerminate ==
    /\ []((calls = <<>> /\ triggers # <<>>)
              => /\ Triggered = "DoA" => chain = <<"DoA", "DoC">>
                 /\ Triggered = "DoD" => chain = <<"DoD", "DoB", "DoC">>
                 /\ Triggered = "DoB" => chain = <<"DoB">>
                 /\ Triggered = "DoC" => chain = <<"DoC">>)
    /\ [](\A i, j \in DOMAIN chain : i # j => chain[i] # chain[j])
    /\ [](Len(calls) <= 4)
    /\ (calls # <<>>) ~> (calls = <<>>)

\* ClientCode's run: DoA and then DoD were called and have returned.
C30_Witness ==
    /\ triggers = <<"DoA", "DoD">>
    /\ calls = <<>>
    /\ chain = <<"DoD", "DoB", "DoC">>

====
